---- MODULE Spec2Model ----
(***************************************************************************)
(* Risk-profile and escalation engine of the Nidhi-Rakshak fraud API       *)
(* (src/app.py).  The SQLite file fraud_database.db is modelled by its     *)
(* committed tables plus the single write transaction SQLite allows; each  *)
(* request handler is split at its database statements, so that the        *)
(* handlers of concurrent workers interleave exactly where the code        *)
(* touches shared state.                                                   *)
(*                                                                         *)
(* Numbers: risk_score and fraud_rate are Python floats.  They are kept    *)
(* as exact fractions in lowest terms ([num, den]); every comparison the   *)
(* code makes on them is against an integer threshold.                     *)
(* warning_flags is stored as JSON text of a list of strings; json.dumps   *)
(* followed by json.loads returns the same list, so the column is kept as  *)
(* the list itself.                                                        *)
(***************************************************************************)
EXTENDS Integers, Sequences, FiniteSets, TLC

\* ------------------------------------------------------------------------
\* Bounds of the model
\* ------------------------------------------------------------------------
MaxProcs == 2
MaxCalls == 3
MaxTicks == 1
\* Requests accepted in a run that starts from a recorded past (SpecLadder).
LadderCalls == 2
\* Requests accepted in a run of SpecStats.
StatsCalls == 3
\* Requests accepted in a run of SpecLive.
LiveCalls == 2
\* Requests accepted in a run of SpecRead.
ReadCalls == 2
\* Requests accepted in a run of SpecTwo.
TwoCalls == 2
\* Requests accepted in a run of SpecRace.
RaceCalls == 3
\* Validation requests accepted in a run of SpecValidate.
ValidateCalls == 1
\* Largest total_transactions and recent_frauds that SpecScore passes to
\* calculate_risk_score.
MaxScoreTotal == 60
MaxRecentFrauds == 3
\* Largest risk_score and fraud_count that SpecClassify passes to
\* get_risk_level_from_score.
MaxClassifyScore == 100
MaxClassifyCount == 101

Procs == 1..MaxProcs
\* The identifiers the service knows of; Next lets clients transact with the
\* first one (see Step).
UpiIds == {"alice@upi", "bob@upi"}
Amounts == {500}
TxTypes == {"PAYMENT"}
Reasons == {"Manual review"}

\* Hours the clock advances in one Tick step: half of the 24 hour window.
TickHours == 12

\* ------------------------------------------------------------------------
\* Configuration (src/app.py:97-100, 302)
\* ------------------------------------------------------------------------
FRAUD_WARNING_THRESHOLD == 10
HIGH_RISK_THRESHOLD == 20
CRITICAL_RISK_THRESHOLD == 50
BLACKLIST_THRESHOLD == 100
RECENT_WINDOW_HOURS == 24

\* ------------------------------------------------------------------------
\* Exact fractions
\* ------------------------------------------------------------------------
RECURSIVE Gcd(_, _)
Gcd(a, b) ==
    IF b = 0 THEN a ELSE Gcd(b, a % b)

Frac(n, d) ==
    LET g == Gcd(n, d) IN [num |-> n \div g, den |-> d \div g]

FracGeq(x, k) ==
    x.num >= k * x.den

\* ------------------------------------------------------------------------
\* Pure functions
\* ------------------------------------------------------------------------
\* fraud_count / total_transactions if total_transactions > 0 else 0
FraudRate(fraud_count, total_transactions) ==
    IF total_transactions > 0 THEN Frac(fraud_count, total_transactions)
    ELSE Frac(0, 1)

\* CountPenalty with the three limits inclusive.
CountPenalty_inclusive(fraud_count) ==
    IF fraud_count >= 50 THEN 30
    ELSE IF fraud_count >= 20 THEN 15
    ELSE IF fraud_count >= 10 THEN 5
    ELSE 0

CountPenalty(fraud_count) ==
    IF fraud_count > 50 THEN 30
    ELSE IF fraud_count > 20 THEN 15
    ELSE IF fraud_count > 10 THEN 5
    ELSE 0

\* calculate_risk_score with the rate not scaled to a percentage.
calculate_risk_score_unscaled(fraud_count, total_transactions, recent_frauds) ==
    IF total_transactions = 0 THEN Frac(0, 1)
    ELSE LET base_num == fraud_count
                         + (CountPenalty(fraud_count) + recent_frauds * 2)
                           * total_transactions
         IN IF base_num >= 100 * total_transactions
            THEN Frac(100, 1)
            ELSE Frac(base_num, total_transactions)

calculate_risk_score(fraud_count, total_transactions, recent_frauds) ==
    IF total_transactions = 0 THEN Frac(0, 1)
    ELSE LET base_num == 100 * fraud_count
                         + (CountPenalty(fraud_count) + recent_frauds * 2)
                           * total_transactions
         IN IF base_num >= 100 * total_transactions
            THEN Frac(100, 1)
            ELSE Frac(base_num, total_transactions)

\* get_risk_level_from_score asking for the count and the score together.
get_risk_level_from_score_conjunctive(risk_score, fraud_count) ==
    IF fraud_count >= BLACKLIST_THRESHOLD /\ FracGeq(risk_score, 90)
    THEN "BLACKLISTED"
    ELSE IF fraud_count >= CRITICAL_RISK_THRESHOLD /\ FracGeq(risk_score, 75)
    THEN "CRITICAL"
    ELSE IF fraud_count >= HIGH_RISK_THRESHOLD /\ FracGeq(risk_score, 50)
    THEN "HIGH"
    ELSE IF fraud_count >= FRAUD_WARNING_THRESHOLD /\ FracGeq(risk_score, 25)
    THEN "MEDIUM"
    ELSE "LOW"

get_risk_level_from_score(risk_score, fraud_count) ==
    IF fraud_count >= BLACKLIST_THRESHOLD \/ FracGeq(risk_score, 90)
    THEN "BLACKLISTED"
    ELSE IF fraud_count >= CRITICAL_RISK_THRESHOLD \/ FracGeq(risk_score, 75)
    THEN "CRITICAL"
    ELSE IF fraud_count >= HIGH_RISK_THRESHOLD \/ FracGeq(risk_score, 50)
    THEN "HIGH"
    ELSE IF fraud_count >= FRAUD_WARNING_THRESHOLD \/ FracGeq(risk_score, 25)
    THEN "MEDIUM"
    ELSE "LOW"

\* ------------------------------------------------------------------------
\* State
\* ------------------------------------------------------------------------
VARIABLES
    profiles,             \* table fraud_profiles: upi_id -> committed row
    transaction_history,  \* table transaction_history, in insertion order
    partner_access_logs,  \* table partner_access_logs, in insertion order
    fraud_counters,       \* the in-memory dict fraud_counters
    partner_apps,         \* table partner_apps: app_id -> committed row
    writer,               \* the worker holding SQLite's write lock, 0 if none
    now,                  \* the wall clock, in hours
    pc,                   \* per worker: the statement it executes next
    req,                  \* per worker: the request it is serving
    loc,                  \* per worker: the handler's local variables
    ret,                  \* the response sent last, with its request
    calls_left,           \* requests this run still accepts
    ticks_left,           \* clock steps this run still takes
    issued,               \* per upi_id: apply calls started, and how many fraud
    failed                \* per upi_id: apply calls that raised

vars == <<profiles, transaction_history, partner_access_logs, fraud_counters,
          partner_apps, writer, now, pc, req, loc, ret, calls_left, ticks_left, issued, failed>>

\* Workers are interchangeable: a request is taken by the first idle one.
Free(p) ==
    /\ pc[p] = "idle"
    /\ \A q \in Procs : q < p => pc[q] # "idle"

NoReq == [op |-> "none"]
NoLoc == [profile |-> <<>>]
NoRet == [status |-> "none"]
ErrRet(r, e) == [status |-> "error", req |-> r, detail |-> e]
\* An error response of which the HTTP status code is modelled as well.
HttpError(r, status_code, e) ==
    [status |-> "error", req |-> r, detail |-> e, status_code |-> status_code]

\* Put by an UPDATE without its WHERE clause: every row takes the values.
Put_every_row(d, k, v) ==
    [x \in DOMAIN d \cup {k} |-> v]

\* dict / table update: d[k] = v
Put(d, k, v) ==
    (k :> v) @@ d

\* SelectProfile reading uncommitted data: the score and the fraud count that
\* the open write transaction has staged, in the committed row.
SelectProfile_dirty(upi_id) ==
    IF upi_id \notin DOMAIN profiles THEN <<>>
    ELSE IF writer # 0 /\ req[writer].op = "apply" /\ req[writer].upi_id = upi_id
    THEN <<[profiles[upi_id] EXCEPT
               !.risk_score = loc[writer].row.risk_score,
               !.total_fraud_count = loc[writer].row.total_fraud_count]>>
    ELSE <<profiles[upi_id]>>

\* SELECT * FROM fraud_profiles WHERE upi_id = ?  ... .fetchone()
SelectProfile(upi_id) ==
    IF upi_id \in DOMAIN profiles THEN <<profiles[upi_id]>> ELSE <<>>

\* ------------------------------------------------------------------------
\* update_user_fraud_profile: the values it computes
\* ------------------------------------------------------------------------
NewFraudCount(profile, is_fraud) ==
    IF profile = <<>>
    THEN (IF is_fraud THEN 1 ELSE 0)
    ELSE profile[1].total_fraud_count + (IF is_fraud THEN 1 ELSE 0)

\* NewTotalTransactions with the increment left out of the update branch.
NewTotalTransactions_uncounted(profile) ==
    IF profile = <<>> THEN 1 ELSE profile[1].total_transactions

NewTotalTransactions(profile) ==
    IF profile = <<>> THEN 1 ELSE profile[1].total_transactions + 1

\* The threshold warnings of the update branch: one if/elif chain on the new
\* fraud_count.
ThresholdFlags(fraud_count) ==
    IF fraud_count = FRAUD_WARNING_THRESHOLD
    THEN <<"MEDIUM_RISK_THRESHOLD_REACHED">>
    ELSE IF fraud_count = HIGH_RISK_THRESHOLD
    THEN <<"HIGH_RISK_THRESHOLD_REACHED">>
    ELSE IF fraud_count = CRITICAL_RISK_THRESHOLD
    THEN <<"CRITICAL_RISK_THRESHOLD_REACHED">>
    ELSE IF fraud_count >= BLACKLIST_THRESHOLD
    THEN <<"BLACKLIST_THRESHOLD_REACHED">>
    ELSE <<>>

\* is_fraud and profile['last_fraud_date'] and now - last_fraud < 24 hours
RecentFlags(profile, is_fraud, clock) ==
    IF /\ is_fraud
       /\ profile[1].last_fraud_date # <<>>
       /\ clock - profile[1].last_fraud_date[1] < RECENT_WINDOW_HOURS
    THEN <<"RECENT_FRAUD_ACTIVITY">>
    ELSE <<>>

\* NewIsBlacklisted with the count compared strictly.
NewIsBlacklisted_strict(fraud_count, risk_score) ==
    fraud_count > BLACKLIST_THRESHOLD \/ FracGeq(risk_score, 90)

NewIsBlacklisted(fraud_count, risk_score) ==
    fraud_count >= BLACKLIST_THRESHOLD \/ FracGeq(risk_score, 90)

\* The row written by the INSERT of the create branch.  The statement names
\* ten columns; is_blacklisted is not among them and takes the column
\* default FALSE.
InsertedRow(upi_id, is_fraud, current_time) ==
    LET fraud_count == NewFraudCount(<<>>, is_fraud)
        total_transactions == NewTotalTransactions(<<>>)
        risk_score == calculate_risk_score(fraud_count, total_transactions, 0)
    IN [upi_id |-> upi_id,
        total_fraud_count |-> fraud_count,
        total_transactions |-> total_transactions,
        fraud_rate |-> Frac(fraud_count, total_transactions),
        current_risk_level |-> get_risk_level_from_score(risk_score, fraud_count),
        risk_score |-> risk_score,
        first_fraud_date |-> IF is_fraud THEN <<current_time>> ELSE <<>>,
        last_fraud_date |-> IF is_fraud THEN <<current_time>> ELSE <<>>,
        last_updated |-> <<current_time>>,
        is_blacklisted |-> FALSE,
        warning_flags |-> IF is_fraud THEN <<"FIRST_FRAUD_DETECTED">> ELSE <<>>]

\* UpdatedRow by an UPDATE that leaves fraud_rate out of its SET list.
UpdatedRow_stale_rate(cur, profile, is_fraud, current_time, clock) ==
    LET fraud_count == NewFraudCount(profile, is_fraud)
        total_transactions == NewTotalTransactions(profile)
        risk_score == calculate_risk_score(fraud_count, total_transactions, 0)
    IN [cur EXCEPT
          !.total_fraud_count = fraud_count,
          !.total_transactions = total_transactions,
          !.current_risk_level = get_risk_level_from_score(risk_score, fraud_count),
          !.risk_score = risk_score,
          !.last_fraud_date = IF is_fraud THEN <<current_time>>
                              ELSE profile[1].last_fraud_date,
          !.last_updated = <<current_time>>,
          !.is_blacklisted = NewIsBlacklisted(fraud_count, risk_score),
          !.warning_flags = profile[1].warning_flags
                            \o ThresholdFlags(fraud_count)
                            \o RecentFlags(profile, is_fraud, clock)]

\* The row left by the UPDATE of the update branch: the stored row `cur`
\* with nine columns replaced by values computed from the row `profile` that
\* the SELECT returned; first_fraud_date is not among them.
UpdatedRow(cur, profile, is_fraud, current_time, clock) ==
    LET fraud_count == NewFraudCount(profile, is_fraud)
        total_transactions == NewTotalTransactions(profile)
        risk_score == calculate_risk_score(fraud_count, total_transactions, 0)
    IN [cur EXCEPT
          !.total_fraud_count = fraud_count,
          !.total_transactions = total_transactions,
          !.fraud_rate = FraudRate(fraud_count, total_transactions),
          !.current_risk_level = get_risk_level_from_score(risk_score, fraud_count),
          !.risk_score = risk_score,
          !.last_fraud_date = IF is_fraud THEN <<current_time>>
                              ELSE profile[1].last_fraud_date,
          !.last_updated = <<current_time>>,
          !.is_blacklisted = NewIsBlacklisted(fraud_count, risk_score),
          !.warning_flags = profile[1].warning_flags
                            \o ThresholdFlags(fraud_count)
                            \o RecentFlags(profile, is_fraud, clock)]

\* The row of transaction_history logged with the profile change.
HistoryRow(upi_id, amount, type, is_fraud, row, partner_app_id) ==
    [upi_id |-> upi_id,
     transaction_amount |-> amount,
     transaction_type |-> type,
     is_fraud |-> is_fraud,
     fraud_probability |-> Frac(row.risk_score.num, 100 * row.risk_score.den),
     risk_level |-> row.current_risk_level,
     partner_app_id |-> partner_app_id]

\* The dict update_user_fraud_profile returns, read back from the table.
ProfileUpdateView(upi_id) ==
    LET updated_profile == profiles[upi_id]
    IN [upi_id |-> upi_id,
        fraud_count |-> updated_profile.total_fraud_count,
        total_transactions |-> updated_profile.total_transactions,
        fraud_rate |-> updated_profile.fraud_rate,
        risk_level |-> updated_profile.current_risk_level,
        risk_score |-> updated_profile.risk_score,
        warning_flags |-> updated_profile.warning_flags,
        is_blacklisted |-> updated_profile.is_blacklisted,
        last_updated |-> updated_profile.last_updated]

\* ProfileLookupView of a lookup that finds no row, whatever the table holds.
ProfileLookupView_not_found(table, upi_id) ==
    [upi_id |-> upi_id,
     status |-> "USER_NOT_FOUND",
     risk_level |-> "UNKNOWN",
     fraud_count |-> 0,
     total_transactions |-> 0,
     fraud_rate |-> Frac(0, 1),
     risk_score |-> Frac(0, 1),
     warning_flags |-> <<>>,
     is_blacklisted |-> FALSE,
     recommendation |-> "NEW_USER_CAUTION"]

\* The dict get_user_fraud_profile returns for upi_id when the table is
\* `table` (the fields the properties below read).
ProfileLookupView(table, upi_id) ==
    IF upi_id \notin DOMAIN table
    THEN [upi_id |-> upi_id,
          status |-> "USER_NOT_FOUND",
          risk_level |-> "UNKNOWN",
          fraud_count |-> 0,
          total_transactions |-> 0,
          fraud_rate |-> Frac(0, 1),
          risk_score |-> Frac(0, 1),
          warning_flags |-> <<>>,
          is_blacklisted |-> FALSE,
          recommendation |-> "NEW_USER_CAUTION"]
    ELSE LET profile == table[upi_id]
         IN [upi_id |-> upi_id,
             status |-> "USER_FOUND",
             risk_level |-> profile.current_risk_level,
             fraud_count |-> profile.total_fraud_count,
             total_transactions |-> profile.total_transactions,
             fraud_rate |-> profile.fraud_rate,
             risk_score |-> profile.risk_score,
             warning_flags |-> profile.warning_flags,
             is_blacklisted |-> profile.is_blacklisted,
             recommendation |->
                 IF profile.is_blacklisted THEN "BLOCK_TRANSACTION"
                 ELSE IF profile.current_risk_level = "CRITICAL"
                 THEN "MANUAL_REVIEW_REQUIRED"
                 ELSE IF profile.current_risk_level = "HIGH"
                 THEN "ENHANCED_VERIFICATION"
                 ELSE IF profile.current_risk_level = "MEDIUM"
                 THEN "PROCEED_WITH_CAUTION"
                 ELSE "PROCEED"]

\* ------------------------------------------------------------------------
\* update_user_fraud_profile, statement by statement
\* ------------------------------------------------------------------------
\* with get_db_connection(): SELECT the profile; current_time = now().
\* sqlite3 opens no transaction for a SELECT: the read holds no lock once
\* fetchone() has returned.
ApplySelect(p, upi_id, is_fraud, amount, type, partner_app_id) ==
    /\ Free(p)
    /\ calls_left > 0
    /\ calls_left' = calls_left - 1
    /\ req' = [req EXCEPT ![p] = [op |-> "apply", upi_id |-> upi_id,
                                  is_fraud |-> is_fraud,
                                  transaction_amount |-> amount,
                                  transaction_type |-> type,
                                  partner_app_id |-> partner_app_id]]
    /\ loc' = [loc EXCEPT ![p] = [profile |-> SelectProfile(upi_id),
                                  current_time |-> now]]
    /\ pc' = [pc EXCEPT ![p] = "apply_write"]
    /\ issued' = [issued EXCEPT ![upi_id] =
                     [n |-> @.n + 1, k |-> @.k + (IF is_fraud THEN 1 ELSE 0)]]
    /\ UNCHANGED <<profiles, transaction_history, partner_access_logs,
                   fraud_counters, partner_apps, writer, now, ret, ticks_left, failed>>

\* ApplyWrite by an INSERT that waits for the row in its way to go away
\* instead of raising IntegrityError.
ApplyWrite_blocking(p) ==
    /\ pc[p] = "apply_write"
    /\ writer = 0
    /\ ~(loc[p].profile = <<>> /\ req[p].upi_id \in DOMAIN profiles)
    /\ LET r == req[p]
           profile == loc[p].profile
           row == IF profile = <<>>
                  THEN InsertedRow(r.upi_id, r.is_fraud, loc[p].current_time)
                  ELSE UpdatedRow(profiles[r.upi_id], profile, r.is_fraud,
                                  loc[p].current_time, now)
       IN loc' = [loc EXCEPT ![p] =
                     [profile |-> profile,
                      row |-> row,
                      history |-> HistoryRow(r.upi_id, r.transaction_amount,
                                             r.transaction_type, r.is_fraud,
                                             row, r.partner_app_id)]]
    /\ writer' = p
    /\ pc' = [pc EXCEPT ![p] = "apply_commit"]
    /\ UNCHANGED <<profiles, transaction_history, partner_access_logs,
                   fraud_counters, partner_apps, now, req, ret, calls_left,
                   ticks_left, issued, failed>>

\* The INSERT or UPDATE, which opens the write transaction (sqlite3's implicit
\* BEGIN), and the INSERT into transaction_history in the same transaction.
\* An INSERT for a upi_id that has a row by now violates the PRIMARY KEY:
\* sqlite3.IntegrityError leaves the function, the connection is closed and the
\* transaction rolled back.
ApplyWrite(p) ==
    /\ pc[p] = "apply_write"
    /\ writer = 0
    /\ LET r == req[p]
           profile == loc[p].profile
       IN IF profile = <<>> /\ r.upi_id \in DOMAIN profiles
          THEN /\ pc' = [pc EXCEPT ![p] = "idle"]
               /\ ret' = ErrRet(r, "IntegrityError")
               /\ req' = [req EXCEPT ![p] = NoReq]
               /\ loc' = [loc EXCEPT ![p] = NoLoc]
               /\ failed' = [failed EXCEPT ![r.upi_id] = @ + 1]
               /\ UNCHANGED writer
          ELSE LET row == IF profile = <<>>
                          THEN InsertedRow(r.upi_id, r.is_fraud,
                                           loc[p].current_time)
                          ELSE UpdatedRow(profiles[r.upi_id], profile,
                                          r.is_fraud, loc[p].current_time, now)
               IN /\ loc' = [loc EXCEPT ![p] =
                       [profile |-> profile,
                        row |-> row,
                        history |-> HistoryRow(r.upi_id, r.transaction_amount,
                                               r.transaction_type, r.is_fraud,
                                               row, r.partner_app_id)]]
                  /\ writer' = p
                  /\ pc' = [pc EXCEPT ![p] = "apply_commit"]
                  /\ UNCHANGED <<req, ret, failed>>
    /\ UNCHANGED <<profiles, transaction_history, partner_access_logs,
                   fraud_counters, partner_apps, now, calls_left, ticks_left, issued>>

\* Another connection holds the write lock for longer than sqlite3's busy
\* timeout: sqlite3.OperationalError (database is locked) leaves the function.
ApplyBusy(p) ==
    /\ pc[p] = "apply_write"
    /\ writer # 0
    /\ writer # p
    /\ pc' = [pc EXCEPT ![p] = "idle"]
    /\ ret' = ErrRet(req[p], "OperationalError")
    /\ req' = [req EXCEPT ![p] = NoReq]
    /\ loc' = [loc EXCEPT ![p] = NoLoc]
    /\ failed' = [failed EXCEPT ![req[p].upi_id] = @ + 1]
    /\ UNCHANGED <<profiles, transaction_history, partner_access_logs,
                   fraud_counters, partner_apps, writer, now, calls_left, ticks_left, issued>>

\* ApplyCommit with the history row left out of the transaction.
ApplyCommit_profile_only(p) ==
    /\ pc[p] = "apply_commit"
    /\ writer = p
    /\ profiles' = Put(profiles, req[p].upi_id, loc[p].row)
    /\ writer' = 0
    /\ loc' = [loc EXCEPT ![p] = NoLoc]
    /\ pc' = [pc EXCEPT ![p] = "apply_return"]
    /\ UNCHANGED <<transaction_history, partner_access_logs, fraud_counters,
                   partner_apps, now, req, ret, calls_left, ticks_left, issued,
                   failed>>

\* conn.commit(): the profile row and the history row become visible.
ApplyCommit(p) ==
    /\ pc[p] = "apply_commit"
    /\ writer = p
    /\ profiles' = Put(profiles, req[p].upi_id, loc[p].row)
    /\ transaction_history' = Append(transaction_history, loc[p].history)
    /\ writer' = 0
    /\ loc' = [loc EXCEPT ![p] = NoLoc]
    /\ pc' = [pc EXCEPT ![p] = "apply_return"]
    /\ UNCHANGED <<partner_access_logs, fraud_counters, partner_apps, now, req, ret,
                   calls_left, ticks_left, issued, failed>>

\* The second SELECT and the returned dict.
ApplyReturn(p) ==
    /\ pc[p] = "apply_return"
    /\ ret' = [status |-> "ok", req |-> req[p],
               body |-> ProfileUpdateView(req[p].upi_id)]
    /\ req' = [req EXCEPT ![p] = NoReq]
    /\ pc' = [pc EXCEPT ![p] = "idle"]
    /\ UNCHANGED <<profiles, transaction_history, partner_access_logs,
                   fraud_counters, partner_apps, writer, now, loc, calls_left, ticks_left,
                   issued, failed>>

\* ------------------------------------------------------------------------
\* manually_blacklist_user (POST /blacklist/{upi_id})
\* ------------------------------------------------------------------------
ManualFlag(reason) ==
    "MANUAL_BLACKLIST: " \o reason

\* INSERT for a user without a row: nine columns; the two fraud dates are NULL.
BlacklistInsertedRow(upi_id, reason, clock) ==
    [upi_id |-> upi_id,
     total_fraud_count |-> 0,
     total_transactions |-> 0,
     fraud_rate |-> Frac(0, 1),
     current_risk_level |-> "BLACKLISTED",
     risk_score |-> Frac(100, 1),
     first_fraud_date |-> <<>>,
     last_fraud_date |-> <<>>,
     last_updated |-> <<clock>>,
     is_blacklisted |-> TRUE,
     warning_flags |-> <<ManualFlag(reason)>>]

\* BlacklistUpdatedRow with current_risk_level left out of the UPDATE.
BlacklistUpdatedRow_stale_level(cur, profile, reason, clock) ==
    [cur EXCEPT
       !.is_blacklisted = TRUE,
       !.risk_score = Frac(100, 1),
       !.warning_flags = Append(profile[1].warning_flags, ManualFlag(reason)),
       !.last_updated = <<clock>>]

\* UPDATE of an existing row: five columns, the flags taken from the row the
\* SELECT returned.
BlacklistUpdatedRow(cur, profile, reason, clock) ==
    [cur EXCEPT
       !.is_blacklisted = TRUE,
       !.current_risk_level = "BLACKLISTED",
       !.risk_score = Frac(100, 1),
       !.warning_flags = Append(profile[1].warning_flags, ManualFlag(reason)),
       !.last_updated = <<clock>>]

BlacklistSelect(p, upi_id, reason, partner_app_id) ==
    /\ Free(p)
    /\ calls_left > 0
    /\ calls_left' = calls_left - 1
    /\ req' = [req EXCEPT ![p] = [op |-> "blacklist", upi_id |-> upi_id,
                                  reason |-> reason,
                                  partner_app_id |-> partner_app_id]]
    /\ loc' = [loc EXCEPT ![p] = [profile |-> SelectProfile(upi_id)]]
    /\ pc' = [pc EXCEPT ![p] = "blacklist_write"]
    /\ UNCHANGED <<profiles, transaction_history, partner_access_logs,
                   fraud_counters, partner_apps, writer, now, ret, ticks_left, issued, failed>>

\* The INSERT or UPDATE and the INSERT into partner_access_logs, in one write
\* transaction.  Every exception is turned into HTTP 500.
BlacklistWrite(p) ==
    /\ pc[p] = "blacklist_write"
    /\ writer = 0
    /\ LET r == req[p]
           profile == loc[p].profile
       IN IF profile = <<>> /\ r.upi_id \in DOMAIN profiles
          THEN /\ pc' = [pc EXCEPT ![p] = "idle"]
               /\ ret' = ErrRet(r, "IntegrityError")
               /\ req' = [req EXCEPT ![p] = NoReq]
               /\ loc' = [loc EXCEPT ![p] = NoLoc]
               /\ UNCHANGED writer
          ELSE /\ loc' = [loc EXCEPT ![p] =
                    [profile |-> profile,
                     row |-> IF profile = <<>>
                             THEN BlacklistInsertedRow(r.upi_id, r.reason, now)
                             ELSE BlacklistUpdatedRow(profiles[r.upi_id],
                                                      profile, r.reason, now),
                     log |-> [partner_app_id |-> r.partner_app_id,
                              upi_id |-> r.upi_id,
                              action |-> "MANUAL_BLACKLIST",
                              response_data |-> r.reason]]]
               /\ writer' = p
               /\ pc' = [pc EXCEPT ![p] = "blacklist_commit"]
               /\ UNCHANGED <<req, ret>>
    /\ UNCHANGED <<profiles, transaction_history, partner_access_logs,
                   fraud_counters, partner_apps, now, calls_left, ticks_left, issued, failed>>

BlacklistBusy(p) ==
    /\ pc[p] = "blacklist_write"
    /\ writer # 0
    /\ writer # p
    /\ pc' = [pc EXCEPT ![p] = "idle"]
    /\ ret' = ErrRet(req[p], "OperationalError")
    /\ req' = [req EXCEPT ![p] = NoReq]
    /\ loc' = [loc EXCEPT ![p] = NoLoc]
    /\ UNCHANGED <<profiles, transaction_history, partner_access_logs,
                   fraud_counters, partner_apps, writer, now, calls_left, ticks_left, issued,
                   failed>>

\* conn.commit() and the success response.
BlacklistCommit(p) ==
    /\ pc[p] = "blacklist_commit"
    /\ writer = p
    /\ profiles' = Put(profiles, req[p].upi_id, loc[p].row)
    /\ partner_access_logs' = Append(partner_access_logs, loc[p].log)
    /\ writer' = 0
    /\ loc' = [loc EXCEPT ![p] = NoLoc]
    /\ ret' = [status |-> "success", req |-> req[p]]
    /\ req' = [req EXCEPT ![p] = NoReq]
    /\ pc' = [pc EXCEPT ![p] = "idle"]
    /\ UNCHANGED <<transaction_history, fraud_counters, partner_apps, now, calls_left,
                   ticks_left, issued, failed>>

\* ------------------------------------------------------------------------
\* reset_fraud_counter (POST /reset-counter/{upi_id}), under counter_lock
\* ------------------------------------------------------------------------
ZeroCounter ==
    [fraud_count |-> 0, total_transactions |-> 0, first_fraud |-> <<>>,
     last_fraud |-> <<>>, warning_triggered |-> FALSE]

ResetFraudCounter(p, upi_id) ==
    /\ Free(p)
    /\ calls_left > 0
    /\ calls_left' = calls_left - 1
    /\ IF upi_id \in DOMAIN fraud_counters
       THEN /\ fraud_counters' = Put(fraud_counters, upi_id, ZeroCounter)
            /\ ret' = [status |-> "reset",
                       req |-> [op |-> "reset", upi_id |-> upi_id],
                       previous_data |->
                         [fraud_count |-> fraud_counters[upi_id].fraud_count,
                          total_transactions |->
                             fraud_counters[upi_id].total_transactions]]
       ELSE /\ fraud_counters' = fraud_counters
            /\ ret' = [status |-> "no_data",
                       req |-> [op |-> "reset", upi_id |-> upi_id]]
    /\ UNCHANGED <<profiles, transaction_history, partner_access_logs,
                   partner_apps, writer, now, pc, req, loc, ticks_left, issued,
                   failed>>

\* ------------------------------------------------------------------------
\* validate_transaction_realtime (POST /validate-transaction): the verdict
\* ------------------------------------------------------------------------
\* The spelling of the strings the pattern check reads, a character each.
Chars(s) ==
    CASE s = "alice@upi" -> <<"a", "l", "i", "c", "e", "@", "u", "p", "i">>
      [] s = "bob@upi" -> <<"b", "o", "b", "@", "u", "p", "i">>
      [] s = "Scammer@upi" ->
            <<"S", "c", "a", "m", "m", "e", "r", "@", "u", "p", "i">>
      [] s = "fake.shop@upi" ->
            <<"f", "a", "k", "e", ".", "s", "h", "o", "p", "@", "u", "p", "i">>
      [] s = "fraud" -> <<"f", "r", "a", "u", "d">>
      [] s = "scammer" -> <<"s", "c", "a", "m", "m", "e", "r">>
      [] s = "fake" -> <<"f", "a", "k", "e">>
      [] s = "cheat" -> <<"c", "h", "e", "a", "t">>
      [] s = "spam" -> <<"s", "p", "a", "m">>

UpperCaseLetters ==
    <<"A", "B", "C", "D", "E", "F", "G", "H", "I", "J", "K", "L", "M",
      "N", "O", "P", "Q", "R", "S", "T", "U", "V", "W", "X", "Y", "Z">>

LowerCaseLetters ==
    <<"a", "b", "c", "d", "e", "f", "g", "h", "i", "j", "k", "l", "m",
      "n", "o", "p", "q", "r", "s", "t", "u", "v", "w", "x", "y", "z">>

\* str.lower()
Lower(text) ==
    [i \in DOMAIN text |->
        IF \E k \in DOMAIN UpperCaseLetters : UpperCaseLetters[k] = text[i]
        THEN LowerCaseLetters[CHOOSE k \in DOMAIN UpperCaseLetters :
                                 UpperCaseLetters[k] = text[i]]
        ELSE text[i]]

\* pattern in text
Contains(text, pattern) ==
    \E i \in 1..(Len(text) - Len(pattern) + 1) :
        SubSeq(text, i, i + Len(pattern) - 1) = pattern

fraudulent_patterns == {"fraud", "scammer", "fake", "cheat", "spam"}

\* The identifiers that requests name as sender or recipient.
RequestUpiIds == {"alice@upi", "bob@upi", "Scammer@upi", "fake.shop@upi"}

\* any(pattern in upi_id.lower() for pattern in fraudulent_patterns),
\* evaluated once for each identifier.
PatternFound ==
    [upi_id \in RequestUpiIds |->
        \E pattern \in fraudulent_patterns :
            Contains(Lower(Chars(upi_id)), Chars(pattern))]

HasFraudulentPattern(upi_id) ==
    PatternFound[upi_id]

\* The condition of the pattern check: the sender, or the recipient when the
\* request names one (None is the empty tuple).
SuspiciousUpiId(request) ==
    \/ HasFraudulentPattern(request.upi_id)
    \/ /\ request.recipient_upi_id # <<>>
       /\ HasFraudulentPattern(request.recipient_upi_id[1])

\* transaction_risk after each of the four checks, given its value before.
RiskAfterPattern(transaction_risk, request) ==
    IF SuspiciousUpiId(request) THEN "CRITICAL" ELSE transaction_risk

\* RiskAfterAmount with the two amount limits inclusive.
RiskAfterAmount_inclusive(transaction_risk, transaction_amount) ==
    IF transaction_amount >= 100000
    THEN (IF transaction_risk = "LOW" THEN "HIGH" ELSE transaction_risk)
    ELSE IF transaction_amount >= 50000
    THEN (IF transaction_risk = "LOW" THEN "MEDIUM" ELSE transaction_risk)
    ELSE transaction_risk

RiskAfterAmount(transaction_risk, transaction_amount) ==
    IF transaction_amount > 100000
    THEN (IF transaction_risk = "LOW" THEN "HIGH" ELSE transaction_risk)
    ELSE IF transaction_amount > 50000
    THEN (IF transaction_risk = "LOW" THEN "MEDIUM" ELSE transaction_risk)
    ELSE transaction_risk

RiskAfterProfile(transaction_risk, profile) ==
    IF profile.is_blacklisted THEN "CRITICAL"
    ELSE IF profile.risk_level = "CRITICAL" THEN "CRITICAL"
    ELSE IF profile.risk_level = "HIGH"
    THEN (IF transaction_risk = "LOW" THEN "MEDIUM" ELSE transaction_risk)
    ELSE transaction_risk

\* RiskAfterType raising a LOW risk only.
RiskAfterType_low_only(transaction_risk, transaction_type, transaction_amount) ==
    IF transaction_type \in {"CASH_OUT"} /\ transaction_amount > 25000
    THEN (IF transaction_risk = "LOW" THEN "HIGH" ELSE transaction_risk)
    ELSE transaction_risk

\* RiskAfterType assigning HIGH whatever the risk was.
RiskAfterType_unguarded(transaction_risk, transaction_type, transaction_amount) ==
    IF transaction_type \in {"CASH_OUT"} /\ transaction_amount > 25000
    THEN "HIGH"
    ELSE transaction_risk

RiskAfterType(transaction_risk, transaction_type, transaction_amount) ==
    IF transaction_type \in {"CASH_OUT"} /\ transaction_amount > 25000
    THEN (IF transaction_risk \in {"LOW", "MEDIUM"}
          THEN "HIGH" ELSE transaction_risk)
    ELSE transaction_risk

TransactionRisk(request, profile) ==
    RiskAfterType(
        RiskAfterProfile(
            RiskAfterAmount(RiskAfterPattern("LOW", request),
                            request.transaction_amount),
            profile),
        request.transaction_type, request.transaction_amount)

\* RiskFactors with the amount check written as two separate ifs.
RiskFactors_both_amounts(request, profile) ==
    (IF SuspiciousUpiId(request) THEN <<"SUSPICIOUS_UPI_ID">> ELSE <<>>)
    \o (IF request.transaction_amount > 100000 THEN <<"HIGH_AMOUNT">>
        ELSE <<>>)
    \o (IF request.transaction_amount > 50000 THEN <<"MEDIUM_AMOUNT">>
        ELSE <<>>)
    \o (IF profile.is_blacklisted THEN <<"BLACKLISTED_USER">>
        ELSE IF profile.risk_level = "CRITICAL" THEN <<"CRITICAL_USER_RISK">>
        ELSE IF profile.risk_level = "HIGH" THEN <<"HIGH_USER_RISK">>
        ELSE <<>>)
    \o (IF /\ request.transaction_type \in {"CASH_OUT"}
           /\ request.transaction_amount > 25000
        THEN <<"SUSPICIOUS_CASH_OUT">> ELSE <<>>)

\* risk_factors: what the four checks append, in their order.
RiskFactors(request, profile) ==
    (IF SuspiciousUpiId(request) THEN <<"SUSPICIOUS_UPI_ID">> ELSE <<>>)
    \o (IF request.transaction_amount > 100000 THEN <<"HIGH_AMOUNT">>
        ELSE IF request.transaction_amount > 50000 THEN <<"MEDIUM_AMOUNT">>
        ELSE <<>>)
    \o (IF profile.is_blacklisted THEN <<"BLACKLISTED_USER">>
        ELSE IF profile.risk_level = "CRITICAL" THEN <<"CRITICAL_USER_RISK">>
        ELSE IF profile.risk_level = "HIGH" THEN <<"HIGH_USER_RISK">>
        ELSE <<>>)
    \o (IF /\ request.transaction_type \in {"CASH_OUT"}
           /\ request.transaction_amount > 25000
        THEN <<"SUSPICIOUS_CASH_OUT">> ELSE <<>>)

\* Recommendation with the wording get_user_fraud_profile uses for HIGH.
Recommendation_lookup_wording(transaction_risk) ==
    IF transaction_risk = "CRITICAL" THEN "BLOCK_TRANSACTION"
    ELSE IF transaction_risk = "HIGH" THEN "ENHANCED_VERIFICATION"
    ELSE IF transaction_risk = "MEDIUM" THEN "PROCEED_WITH_CAUTION"
    ELSE "PROCEED"

Recommendation(transaction_risk) ==
    IF transaction_risk = "CRITICAL" THEN "BLOCK_TRANSACTION"
    ELSE IF transaction_risk = "HIGH" THEN "MANUAL_REVIEW_REQUIRED"
    ELSE IF transaction_risk = "MEDIUM" THEN "PROCEED_WITH_CAUTION"
    ELSE "PROCEED"

\* ShouldBlock looking at the blacklist alone.
ShouldBlock_blacklist_only(profile, transaction_risk) ==
    profile.is_blacklisted

ShouldBlock(profile, transaction_risk) ==
    profile.is_blacklisted \/ transaction_risk = "CRITICAL"

\* The response, for the dict `profile` that get_user_fraud_profile returned.
\* (transaction_details and partner_info repeat the request.)
ValidationResponse(request, profile) ==
    LET transaction_risk == TransactionRisk(request, profile)
        should_block == ShouldBlock(profile, transaction_risk)
    IN [validation_result |->
            [should_proceed |-> ~should_block,
             should_block |-> should_block,
             transaction_risk |-> transaction_risk,
             risk_factors |-> RiskFactors(request, profile),
             recommendation |-> Recommendation(transaction_risk)],
        user_profile |->
            [upi_id |-> profile.upi_id,
             risk_level |-> profile.risk_level,
             fraud_score |-> profile.risk_score,
             is_blacklisted |-> profile.is_blacklisted,
             total_fraud_count |-> profile.fraud_count]]

\* ------------------------------------------------------------------------
\* validate_transaction_realtime, statement by statement
\* ------------------------------------------------------------------------
\* SELECT the active partner; without one HTTPException(401) is raised inside
\* the try block, whose `except Exception` answers 500 with the 401 in its
\* detail.  Otherwise UPDATE partner_apps and commit, one write transaction:
\* it fails with sqlite3.OperationalError when another connection holds the
\* write lock past the busy timeout.
ValidatePartner(p, request) ==
    /\ Free(p)
    /\ calls_left > 0
    /\ calls_left' = calls_left - 1
    /\ LET app_id == request.partner_app_id
       IN IF ~(app_id \in DOMAIN partner_apps /\ partner_apps[app_id].is_active)
          THEN /\ ret' = HttpError(request, 500,
                                   "401: Invalid or inactive partner app")
               /\ UNCHANGED <<partner_apps, pc, req>>
          ELSE IF writer # 0
          THEN /\ ret' = ErrRet(request, "OperationalError")
               /\ UNCHANGED <<partner_apps, pc, req>>
          ELSE /\ partner_apps' =
                     [partner_apps EXCEPT ![app_id] =
                         [@ EXCEPT !.total_requests = @ + 1,
                                   !.last_access = <<now>>]]
               /\ req' = [req EXCEPT ![p] = request]
               /\ pc' = [pc EXCEPT ![p] = "validate_lookup"]
               /\ UNCHANGED ret
    /\ UNCHANGED <<profiles, transaction_history, partner_access_logs,
                   fraud_counters, writer, now, loc, ticks_left, issued, failed>>

\* get_user_fraud_profile: SELECT the profile, on a connection of its own.
ValidateLookup(p) ==
    /\ pc[p] = "validate_lookup"
    /\ loc' = [loc EXCEPT ![p] = [profile |-> SelectProfile(req[p].upi_id)]]
    /\ pc' = [pc EXCEPT ![p] = "validate_log"]
    /\ UNCHANGED <<profiles, transaction_history, partner_access_logs,
                   fraud_counters, partner_apps, writer, now, req, ret,
                   calls_left, ticks_left, issued, failed>>

\* The table holding just the row that the SELECT fetched.
Fetched(upi_id, profile) ==
    IF profile = <<>> THEN <<>> ELSE upi_id :> profile[1]

\* The access-log row of get_user_fraud_profile.
LookupLog(partner_app_id, upi_id) ==
    [partner_app_id |-> partner_app_id, upi_id |-> upi_id,
     action |-> "PROFILE_LOOKUP", response_data |-> ""]

\* ValidateLog run by a validator that records the transaction as well.
ValidateLog_recording(p) ==
    /\ pc[p] = "validate_log"
    /\ writer = 0
    /\ partner_access_logs' =
           Append(partner_access_logs,
                  LookupLog(req[p].partner_app_id, req[p].upi_id))
    /\ profiles' = Put(profiles, req[p].upi_id,
                       IF loc[p].profile = <<>>
                       THEN InsertedRow(req[p].upi_id, FALSE, now)
                       ELSE UpdatedRow(profiles[req[p].upi_id], loc[p].profile,
                                       FALSE, now, now))
    /\ ret' = [status |-> "ok", req |-> req[p],
               body |-> ValidationResponse(
                            req[p],
                            ProfileLookupView(
                                Fetched(req[p].upi_id, loc[p].profile),
                                req[p].upi_id))]
    /\ pc' = [pc EXCEPT ![p] = "idle"]
    /\ req' = [req EXCEPT ![p] = NoReq]
    /\ loc' = [loc EXCEPT ![p] = NoLoc]
    /\ UNCHANGED <<transaction_history, fraud_counters, partner_apps, writer,
                   now, calls_left, ticks_left, issued, failed>>

\* get_user_fraud_profile, after its SELECT: the partner_app_id is not empty,
\* so INSERT INTO partner_access_logs and commit (OperationalError when the
\* write lock is held past the busy timeout); then the dict for the fetched
\* row, the four checks and the response.
ValidateLog(p) ==
    /\ pc[p] = "validate_log"
    /\ IF req[p].partner_app_id # "" /\ writer # 0
       THEN /\ ret' = ErrRet(req[p], "OperationalError")
            /\ UNCHANGED partner_access_logs
       ELSE /\ partner_access_logs' =
                   IF req[p].partner_app_id # ""
                   THEN Append(partner_access_logs,
                               LookupLog(req[p].partner_app_id, req[p].upi_id))
                   ELSE partner_access_logs
            /\ ret' = [status |-> "ok", req |-> req[p],
                       body |-> ValidationResponse(
                                    req[p],
                                    ProfileLookupView(
                                        Fetched(req[p].upi_id, loc[p].profile),
                                        req[p].upi_id))]
    /\ pc' = [pc EXCEPT ![p] = "idle"]
    /\ req' = [req EXCEPT ![p] = NoReq]
    /\ loc' = [loc EXCEPT ![p] = NoLoc]
    /\ UNCHANGED <<profiles, transaction_history, fraud_counters, partner_apps,
                   writer, now, calls_left, ticks_left, issued, failed>>

\* ------------------------------------------------------------------------
\* user_fraud_lookup (POST /user-lookup), statement by statement
\* ------------------------------------------------------------------------
\* The response, for the dict `profile` that get_user_fraud_profile returned.
\* transaction_amount is << >> when the request has none.
LookupResponse(request, profile) ==
    [user_profile |-> profile,
     instant_assessment |->
         [safe_to_proceed |-> ~profile.is_blacklisted
                              /\ profile.risk_level # "CRITICAL",
          requires_verification |-> profile.risk_level \in {"HIGH", "CRITICAL"},
          recommended_action |-> profile.recommendation],
     transaction_context |->
         IF request.transaction_amount = <<>> THEN <<>>
         ELSE LET amount == request.transaction_amount[1]
              IN <<[amount |-> amount,
                    amount_risk_level |->
                        IF amount > 100000 THEN "HIGH"
                        ELSE IF amount > 50000 THEN "MEDIUM" ELSE "LOW",
                    adjusted_recommendation |->
                        IF profile.is_blacklisted
                           \/ (profile.risk_level = "CRITICAL" /\ amount > 50000)
                        THEN "BLOCK_TRANSACTION"
                        ELSE IF profile.risk_level = "HIGH" /\ amount > 100000
                        THEN "MANUAL_REVIEW_REQUIRED"
                        ELSE profile.recommendation]>>]

\* get_user_fraud_profile: SELECT the profile.
LookupSelect(p, upi_id, partner_app_id, amount) ==
    /\ Free(p)
    /\ calls_left > 0
    /\ calls_left' = calls_left - 1
    /\ req' = [req EXCEPT ![p] = [op |-> "lookup", upi_id |-> upi_id,
                                  partner_app_id |-> partner_app_id,
                                  transaction_amount |-> amount]]
    /\ loc' = [loc EXCEPT ![p] = [profile |-> SelectProfile(upi_id)]]
    /\ pc' = [pc EXCEPT ![p] = "lookup_log"]
    /\ UNCHANGED <<profiles, transaction_history, partner_access_logs,
                   fraud_counters, partner_apps, writer, now, ret, ticks_left,
                   issued, failed>>

\* LookupRespond by a lookup that creates the profile it did not find.
LookupRespond_creating(p) ==
    /\ pc[p] = "lookup_log"
    /\ writer = 0
    /\ partner_access_logs' =
           Append(partner_access_logs,
                  LookupLog(req[p].partner_app_id, req[p].upi_id))
    /\ profiles' = IF req[p].upi_id \in DOMAIN profiles THEN profiles
                   ELSE Put(profiles, req[p].upi_id,
                            InsertedRow(req[p].upi_id, FALSE, now))
    /\ ret' = [status |-> "ok", req |-> req[p],
               body |-> LookupResponse(
                            req[p],
                            ProfileLookupView(
                                Fetched(req[p].upi_id, loc[p].profile),
                                req[p].upi_id))]
    /\ pc' = [pc EXCEPT ![p] = "idle"]
    /\ req' = [req EXCEPT ![p] = NoReq]
    /\ loc' = [loc EXCEPT ![p] = NoLoc]
    /\ UNCHANGED <<transaction_history, fraud_counters, partner_apps, writer,
                   now, calls_left, ticks_left, issued, failed>>

\* get_user_fraud_profile, after its SELECT: when the partner_app_id is not
\* empty, INSERT INTO partner_access_logs and commit (OperationalError when
\* the write lock is held past the busy timeout, answered 500 by the
\* endpoint); then the dict for the fetched row and the response.
LookupRespond(p) ==
    /\ pc[p] = "lookup_log"
    /\ IF req[p].partner_app_id # "" /\ writer # 0
       THEN /\ ret' = ErrRet(req[p], "OperationalError")
            /\ UNCHANGED partner_access_logs
       ELSE /\ partner_access_logs' =
                   IF req[p].partner_app_id # ""
                   THEN Append(partner_access_logs,
                               LookupLog(req[p].partner_app_id, req[p].upi_id))
                   ELSE partner_access_logs
            /\ ret' = [status |-> "ok", req |-> req[p],
                       body |-> LookupResponse(
                                    req[p],
                                    ProfileLookupView(
                                        Fetched(req[p].upi_id, loc[p].profile),
                                        req[p].upi_id))]
    /\ pc' = [pc EXCEPT ![p] = "idle"]
    /\ req' = [req EXCEPT ![p] = NoReq]
    /\ loc' = [loc EXCEPT ![p] = NoLoc]
    /\ UNCHANGED <<profiles, transaction_history, fraud_counters, partner_apps,
                   writer, now, calls_left, ticks_left, issued, failed>>

\* ------------------------------------------------------------------------
\* get_fraud_stats (GET /fraud-stats/{upi_id})
\* ------------------------------------------------------------------------
\* f"{fraud_rate:.2%}": the rate in hundredths of a percent, rounded to the
\* nearest (the text form adds the decimal point and the % sign).
PercentText(fraud_count, total_transactions) ==
    IF total_transactions > 0
    THEN (20000 * fraud_count + total_transactions)
            \div (2 * total_transactions)
    ELSE 0

\* The risk level of the statistics view: its own ladder on the fraud count.
StatsRiskLevel(fraud_count) ==
    IF fraud_count > HIGH_RISK_THRESHOLD THEN "CRITICAL"
    ELSE IF fraud_count > FRAUD_WARNING_THRESHOLD THEN "HIGH"
    ELSE IF fraud_count > 5 THEN "MEDIUM"
    ELSE "LOW"

\* The handler reads the in-memory dict fraud_counters only.
GetFraudStats(p, upi_id) ==
    /\ Free(p)
    /\ calls_left > 0
    /\ calls_left' = calls_left - 1
    /\ ret' = [status |-> "ok",
               req |-> [op |-> "stats", upi_id |-> upi_id],
               body |->
                  IF upi_id \notin DOMAIN fraud_counters
                  THEN [upi_id |-> upi_id,
                        status |-> "No transactions found",
                        fraud_count |-> 0,
                        total_transactions |-> 0,
                        fraud_rate |-> 0,
                        risk_level |-> "UNKNOWN"]
                  ELSE LET data == fraud_counters[upi_id]
                       IN [upi_id |-> upi_id,
                           status |-> "",
                           fraud_count |-> data.fraud_count,
                           total_transactions |-> data.total_transactions,
                           fraud_rate |-> PercentText(data.fraud_count,
                                                      data.total_transactions),
                           risk_level |-> StatsRiskLevel(data.fraud_count)]]
    /\ UNCHANGED <<profiles, transaction_history, partner_access_logs,
                   fraud_counters, partner_apps, writer, now, pc, req, loc,
                   ticks_left, issued, failed>>

\* ------------------------------------------------------------------------
\* The clock
\* ------------------------------------------------------------------------
Tick ==
    /\ ticks_left > 0
    /\ ticks_left' = ticks_left - 1
    /\ now' = now + TickHours
    /\ UNCHANGED <<profiles, transaction_history, partner_access_logs,
                   fraud_counters, partner_apps, writer, pc, req, loc, ret, calls_left, issued,
                   failed>>

\* ------------------------------------------------------------------------
\* Specification: the service after initialize_database() and startup_event()
\* on a new file
\* ------------------------------------------------------------------------
\* startup_event registers the mock payment app; total_requests takes the
\* column default 0.
StartupPartnerApps ==
    "mock_payment_app" :> [app_name |-> "Mock Payment App", is_active |-> TRUE,
                           total_requests |-> 0, last_access |-> <<>>]

Init ==
    /\ profiles = <<>>
    /\ transaction_history = <<>>
    /\ partner_access_logs = <<>>
    /\ fraud_counters = <<>>
    /\ partner_apps = StartupPartnerApps
    /\ writer = 0
    /\ now = 0
    /\ pc = [p \in Procs |-> "idle"]
    /\ req = [p \in Procs |-> NoReq]
    /\ loc = [p \in Procs |-> NoLoc]
    /\ ret = NoRet
    /\ calls_left = MaxCalls
    /\ ticks_left = MaxTicks
    /\ issued = [u \in UpiIds |-> [n |-> 0, k |-> 0]]
    /\ failed = [u \in UpiIds |-> 0]

\* One step of the service, its clients transacting with the identifiers ids.
Step(ids) ==
    \/ \E p \in Procs, u \in ids, f \in BOOLEAN, a \in Amounts, t \in TxTypes :
          ApplySelect(p, u, f, a, t, "internal_api")
    \/ \E p \in Procs : ApplyWrite(p)
    \/ \E p \in Procs : ApplyBusy(p)
    \/ \E p \in Procs : ApplyCommit(p)
    \/ \E p \in Procs : ApplyReturn(p)
    \/ \E p \in Procs, u \in ids, r \in Reasons : BlacklistSelect(p, u, r, "")
    \/ \E p \in Procs : BlacklistWrite(p)
    \/ \E p \in Procs : BlacklistBusy(p)
    \/ \E p \in Procs : BlacklistCommit(p)
    \/ \E p \in Procs, u \in ids : ResetFraudCounter(p, u)
    \/ Tick

Next == Step({"alice@upi"})

Spec == Init /\ [][Next]_vars

\* ------------------------------------------------------------------------
\* Specification SpecLadder: the service with a past.  The database holds
\* what a run of complete update_user_fraud_profile calls on one identifier
\* leaves: first `legit` calls with is_fraud = False, then `fraud` calls with
\* is_fraud = True, one after the other, all in the hour before the model's
\* clock starts.  The rows are computed with the operators the actions use.
\* ------------------------------------------------------------------------
PastRuns == {<<0, 9>>, <<0, 99>>, <<70, 99>>}

EmptyDb == [profiles |-> <<>>, transaction_history |-> <<>>]

\* One complete call, alone: SELECT, INSERT or UPDATE, history row, commit.
AppliedAlone(db, upi_id, is_fraud) ==
    LET profile == IF upi_id \in DOMAIN db.profiles
                   THEN <<db.profiles[upi_id]>> ELSE <<>>
        row == IF profile = <<>>
               THEN InsertedRow(upi_id, is_fraud, 0)
               ELSE UpdatedRow(db.profiles[upi_id], profile, is_fraud, 0, 0)
    IN [profiles |-> Put(db.profiles, upi_id, row),
        transaction_history |->
            Append(db.transaction_history,
                   HistoryRow(upi_id, 500, "PAYMENT", is_fraud, row,
                              "internal_api"))]

\* n such calls in a row, each working on the database the one before it
\* has committed.  (The first half is computed, as the one element d of a set,
\* before the second half starts from it.)
RECURSIVE AppliedTimes(_, _, _, _)
AppliedTimes(db, upi_id, is_fraud, n) ==
    IF n = 0 THEN db
    ELSE IF n = 1 THEN AppliedAlone(db, upi_id, is_fraud)
    ELSE CHOOSE r \in {AppliedTimes(d, upi_id, is_fraud, n - (n \div 2)) :
                          d \in {AppliedTimes(db, upi_id, is_fraud, n \div 2)}} :
            TRUE

Past(upi_id, legit, fraud) ==
    CHOOSE r \in {AppliedTimes(d, upi_id, TRUE, fraud) :
                     d \in {AppliedTimes(EmptyDb, upi_id, FALSE, legit)}} : TRUE

InitLadder ==
    \E run \in PastRuns :
        LET db == Past("alice@upi", run[1], run[2])
        IN /\ profiles = db.profiles
           /\ transaction_history = db.transaction_history
           /\ partner_access_logs = <<>>
           /\ fraud_counters = <<>>
           /\ partner_apps = StartupPartnerApps
           /\ writer = 0
           /\ now = 0
           /\ pc = [p \in Procs |-> "idle"]
           /\ req = [p \in Procs |-> NoReq]
           /\ loc = [p \in Procs |-> NoLoc]
           /\ ret = NoRet
           /\ calls_left = LadderCalls
           /\ ticks_left = MaxTicks
           /\ issued = [u \in UpiIds |->
                          IF u = "alice@upi"
                          THEN [n |-> run[1] + run[2], k |-> run[2]]
                          ELSE [n |-> 0, k |-> 0]]
           /\ failed = [u \in UpiIds |-> 0]

SpecLadder == InitLadder /\ [][Next]_vars

\* ------------------------------------------------------------------------
\* Specification SpecValidate: partner apps validating transactions against
\* the profile that a past run of update_user_fraud_profile calls has left
\* (none; levels LOW, MEDIUM, HIGH and CRITICAL; level BLACKLISTED as the
\* INSERT leaves it; blacklisted).
\* ------------------------------------------------------------------------
ValidatePastRuns ==
    {<<0, 0>>, <<1, 0>>, <<2, 1>>, <<1, 1>>, <<1, 3>>, <<0, 1>>, <<0, 2>>}

ValidateAmounts == {10, 25000, 50000, 60000, 100000, 100001}
ValidateTxTypes == {"PAYMENT", "CASH_OUT"}
Recipients == {<<>>, <<"bob@upi">>, <<"fake.shop@upi">>}

ValidationRequest(upi_id, partner_app_id, amount, type, recipient) ==
    [op |-> "validate", upi_id |-> upi_id, partner_app_id |-> partner_app_id,
     transaction_amount |-> amount, transaction_type |-> type,
     recipient_upi_id |-> recipient]

ValidationRequests ==
    {ValidationRequest("alice@upi", "mock_payment_app", a, t, r) :
        a \in ValidateAmounts, t \in ValidateTxTypes, r \in Recipients}
    \cup {ValidationRequest("Scammer@upi", "mock_payment_app", a, t, <<>>) :
             a \in ValidateAmounts, t \in ValidateTxTypes}
    \cup {ValidationRequest("alice@upi", "unknown_app", 10, "PAYMENT", <<>>)}

InitValidate ==
    \E run \in ValidatePastRuns :
        LET db == Past("alice@upi", run[1], run[2])
        IN /\ profiles = db.profiles
           /\ transaction_history = db.transaction_history
           /\ partner_access_logs = <<>>
           /\ fraud_counters = <<>>
           /\ partner_apps = StartupPartnerApps
           /\ writer = 0
           /\ now = 0
           /\ pc = [p \in Procs |-> "idle"]
           /\ req = [p \in Procs |-> NoReq]
           /\ loc = [p \in Procs |-> NoLoc]
           /\ ret = NoRet
           /\ calls_left = ValidateCalls
           /\ ticks_left = 0
           /\ issued = [u \in UpiIds |->
                          IF u = "alice@upi"
                          THEN [n |-> run[1] + run[2], k |-> run[2]]
                          ELSE [n |-> 0, k |-> 0]]
           /\ failed = [u \in UpiIds |-> 0]

ValidateStep(requests) ==
    \/ \E p \in Procs, request \in requests : ValidatePartner(p, request)
    \/ \E p \in Procs : ValidateLookup(p)
    \/ \E p \in Procs : ValidateLog(p)

NextValidate == ValidateStep(ValidationRequests)

SpecValidate == InitValidate /\ [][NextValidate]_vars

\* ------------------------------------------------------------------------
\* Specification SpecScore: one call of calculate_risk_score, for each
\* fraud_count <= total_transactions <= MaxScoreTotal and each recent_frauds
\* <= MaxRecentFrauds (and, with no transaction, for a fraud_count up to 2).
\* ------------------------------------------------------------------------
ScoreRequest(fraud_count, total_transactions, recent_frauds) ==
    [op |-> "score", fraud_count |-> fraud_count,
     total_transactions |-> total_transactions,
     recent_frauds |-> recent_frauds]

ScoreRequests ==
    {ScoreRequest(k, n, r) : k \in 0..MaxScoreTotal, n \in 0..MaxScoreTotal,
                             r \in 0..MaxRecentFrauds}

InitScore ==
    \E request \in ScoreRequests :
        /\ request.fraud_count <= request.total_transactions
           \/ (request.total_transactions = 0 /\ request.fraud_count <= 2)
        /\ profiles = <<>>
        /\ transaction_history = <<>>
        /\ partner_access_logs = <<>>
        /\ fraud_counters = <<>>
        /\ partner_apps = StartupPartnerApps
        /\ writer = 0
        /\ now = 0
        /\ pc = [p \in Procs |-> IF p = 1 THEN "score" ELSE "idle"]
        /\ req = [p \in Procs |-> IF p = 1 THEN request ELSE NoReq]
        /\ loc = [p \in Procs |-> NoLoc]
        /\ ret = NoRet
        /\ calls_left = 0
        /\ ticks_left = 0
        /\ issued = [u \in UpiIds |-> [n |-> 0, k |-> 0]]
        /\ failed = [u \in UpiIds |-> 0]

\* The call and its return value.
CalculateRiskScore(p) ==
    /\ pc[p] = "score"
    /\ ret' = [status |-> "ok", req |-> req[p],
               body |-> calculate_risk_score(req[p].fraud_count,
                                             req[p].total_transactions,
                                             req[p].recent_frauds)]
    /\ pc' = [pc EXCEPT ![p] = "idle"]
    /\ req' = [req EXCEPT ![p] = NoReq]
    /\ UNCHANGED <<profiles, transaction_history, partner_access_logs,
                   fraud_counters, partner_apps, writer, now, loc, calls_left,
                   ticks_left, issued, failed>>

NextScore == \E p \in Procs : CalculateRiskScore(p)

SpecScore == InitScore /\ [][NextScore]_vars

\* ------------------------------------------------------------------------
\* Specification SpecClassify: one call of get_risk_level_from_score, for
\* each risk_score 0, 0.5, 1, ... up to MaxClassifyScore and each fraud_count
\* up to MaxClassifyCount.
\* ------------------------------------------------------------------------
ClassifyRequest(risk_score, fraud_count) ==
    [op |-> "classify", risk_score |-> risk_score, fraud_count |-> fraud_count]

InitClassify ==
    \E halves \in 0..(2 * MaxClassifyScore), fraud_count \in 0..MaxClassifyCount :
        /\ profiles = <<>>
        /\ transaction_history = <<>>
        /\ partner_access_logs = <<>>
        /\ fraud_counters = <<>>
        /\ partner_apps = StartupPartnerApps
        /\ writer = 0
        /\ now = 0
        /\ pc = [p \in Procs |-> IF p = 1 THEN "classify" ELSE "idle"]
        /\ req = [p \in Procs |->
                    IF p = 1 THEN ClassifyRequest(Frac(halves, 2), fraud_count)
                    ELSE NoReq]
        /\ loc = [p \in Procs |-> NoLoc]
        /\ ret = NoRet
        /\ calls_left = 0
        /\ ticks_left = 0
        /\ issued = [u \in UpiIds |-> [n |-> 0, k |-> 0]]
        /\ failed = [u \in UpiIds |-> 0]

\* The call and its return value.
GetRiskLevelFromScore(p) ==
    /\ pc[p] = "classify"
    /\ ret' = [status |-> "ok", req |-> req[p],
               body |-> get_risk_level_from_score(req[p].risk_score,
                                                  req[p].fraud_count)]
    /\ pc' = [pc EXCEPT ![p] = "idle"]
    /\ req' = [req EXCEPT ![p] = NoReq]
    /\ UNCHANGED <<profiles, transaction_history, partner_access_logs,
                   fraud_counters, partner_apps, writer, now, loc, calls_left,
                   ticks_left, issued, failed>>

NextClassify == \E p \in Procs : GetRiskLevelFromScore(p)

SpecClassify == InitClassify /\ [][NextClassify]_vars

\* ------------------------------------------------------------------------
\* Specification SpecRace: update_user_fraud_profile and
\* manually_blacklist_user calls racing on an identifier that one earlier
\* call, with is_fraud = False, has given a profile.
\* ------------------------------------------------------------------------
InitRace ==
    LET db == Past("alice@upi", 1, 0)
    IN /\ profiles = db.profiles
       /\ transaction_history = db.transaction_history
       /\ partner_access_logs = <<>>
       /\ fraud_counters = <<>>
       /\ partner_apps = StartupPartnerApps
       /\ writer = 0
       /\ now = 0
       /\ pc = [p \in Procs |-> "idle"]
       /\ req = [p \in Procs |-> NoReq]
       /\ loc = [p \in Procs |-> NoLoc]
       /\ ret = NoRet
       /\ calls_left = RaceCalls
       /\ ticks_left = 0
       /\ issued = [u \in UpiIds |->
                      IF u = "alice@upi" THEN [n |-> 1, k |-> 0]
                      ELSE [n |-> 0, k |-> 0]]
       /\ failed = [u \in UpiIds |-> 0]

\* One step of a call that writes a profile of one of the identifiers ids.
WriteStep(ids) ==
    \/ \E p \in Procs, u \in ids, f \in BOOLEAN, a \in Amounts, t \in TxTypes :
          ApplySelect(p, u, f, a, t, "internal_api")
    \/ \E p \in Procs : ApplyWrite(p)
    \/ \E p \in Procs : ApplyBusy(p)
    \/ \E p \in Procs : ApplyCommit(p)
    \/ \E p \in Procs : ApplyReturn(p)
    \/ \E p \in Procs, u \in ids, r \in Reasons : BlacklistSelect(p, u, r, "")
    \/ \E p \in Procs : BlacklistWrite(p)
    \/ \E p \in Procs : BlacklistBusy(p)
    \/ \E p \in Procs : BlacklistCommit(p)

NextRace == WriteStep({"alice@upi"})

SpecRace == InitRace /\ [][NextRace]_vars

\* ------------------------------------------------------------------------
\* Specification SpecTwo: update_user_fraud_profile and
\* manually_blacklist_user calls on two identifiers, on a new database.
\* ------------------------------------------------------------------------
InitTwo ==
    /\ profiles = <<>>
    /\ transaction_history = <<>>
    /\ partner_access_logs = <<>>
    /\ fraud_counters = <<>>
    /\ partner_apps = StartupPartnerApps
    /\ writer = 0
    /\ now = 0
    /\ pc = [p \in Procs |-> "idle"]
    /\ req = [p \in Procs |-> NoReq]
    /\ loc = [p \in Procs |-> NoLoc]
    /\ ret = NoRet
    /\ calls_left = TwoCalls
    /\ ticks_left = 0
    /\ issued = [u \in UpiIds |-> [n |-> 0, k |-> 0]]
    /\ failed = [u \in UpiIds |-> 0]

NextTwo == WriteStep(UpiIds)

SpecTwo == InitTwo /\ [][NextTwo]_vars

\* ------------------------------------------------------------------------
\* Specification SpecRead: lookups (POST /user-lookup) and validations
\* running with update_user_fraud_profile calls on "alice@upi", who has no
\* profile yet or the profile one non-fraudulent transaction has left;
\* "bob@upi" has no profile and none is written.
\* ------------------------------------------------------------------------
ReadPastRuns == {<<0, 0>>, <<1, 0>>}
LookupCallers == {"mock_payment_app", ""}
LookupAmounts == {<<>>, <<60000>>}

ReadValidationRequests ==
    {ValidationRequest(u, "mock_payment_app", 10, "PAYMENT", <<>>) :
        u \in UpiIds}

InitRead ==
    \E run \in ReadPastRuns :
        LET db == Past("alice@upi", run[1], run[2])
        IN /\ profiles = db.profiles
           /\ transaction_history = db.transaction_history
           /\ partner_access_logs = <<>>
           /\ fraud_counters = <<>>
           /\ partner_apps = StartupPartnerApps
           /\ writer = 0
           /\ now = 0
           /\ pc = [p \in Procs |-> "idle"]
           /\ req = [p \in Procs |-> NoReq]
           /\ loc = [p \in Procs |-> NoLoc]
           /\ ret = NoRet
           /\ calls_left = ReadCalls
           /\ ticks_left = 0
           /\ issued = [u \in UpiIds |->
                          IF u = "alice@upi"
                          THEN [n |-> run[1] + run[2], k |-> run[2]]
                          ELSE [n |-> 0, k |-> 0]]
           /\ failed = [u \in UpiIds |-> 0]

NextRead ==
    \/ \E p \in Procs, f \in BOOLEAN, a \in Amounts, t \in TxTypes :
          ApplySelect(p, "alice@upi", f, a, t, "internal_api")
    \/ \E p \in Procs : ApplyWrite(p)
    \/ \E p \in Procs : ApplyBusy(p)
    \/ \E p \in Procs : ApplyCommit(p)
    \/ \E p \in Procs : ApplyReturn(p)
    \/ \E p \in Procs, u \in UpiIds, c \in LookupCallers, a \in LookupAmounts :
          LookupSelect(p, u, c, a)
    \/ \E p \in Procs : LookupRespond(p)
    \/ ValidateStep(ReadValidationRequests)

SpecRead == InitRead /\ [][NextRead]_vars

\* ------------------------------------------------------------------------
\* Specification SpecLive: applies, manual blacklists, lookups and
\* validations of "alice@upi" on a new database, every handler that has
\* started being run on: a request is served by a thread of its own, which
\* the scheduler does not starve, and a statement that finds the database
\* locked returns after sqlite3's busy timeout (the default 5 seconds of
\* sqlite3.connect) at the latest.
\* ------------------------------------------------------------------------
InitLive ==
    /\ profiles = <<>>
    /\ transaction_history = <<>>
    /\ partner_access_logs = <<>>
    /\ fraud_counters = <<>>
    /\ partner_apps = StartupPartnerApps
    /\ writer = 0
    /\ now = 0
    /\ pc = [p \in Procs |-> "idle"]
    /\ req = [p \in Procs |-> NoReq]
    /\ loc = [p \in Procs |-> NoLoc]
    /\ ret = NoRet
    /\ calls_left = LiveCalls
    /\ ticks_left = 0
    /\ issued = [u \in UpiIds |-> [n |-> 0, k |-> 0]]
    /\ failed = [u \in UpiIds |-> 0]

LiveValidationRequests ==
    {ValidationRequest("alice@upi", "mock_payment_app", 10, "PAYMENT", <<>>)}

NextLive ==
    \/ WriteStep({"alice@upi"})
    \/ \E p \in Procs : LookupSelect(p, "alice@upi", "mock_payment_app", <<>>)
    \/ \E p \in Procs : LookupRespond(p)
    \/ ValidateStep(LiveValidationRequests)

\* The next statement of the handler that worker p is running.
Continue(p) ==
    \/ ApplyWrite(p) \/ ApplyBusy(p) \/ ApplyCommit(p) \/ ApplyReturn(p)
    \/ BlacklistWrite(p) \/ BlacklistBusy(p) \/ BlacklistCommit(p)
    \/ LookupRespond(p)
    \/ ValidateLookup(p) \/ ValidateLog(p)

SpecLive ==
    InitLive /\ [][NextLive]_vars /\ \A p \in Procs : WF_vars(Continue(p))

\* ------------------------------------------------------------------------
\* Specification SpecStats: update_user_fraud_profile calls on "alice@upi"
\* and GET /fraud-stats/{upi_id} requests, on a new database and a new
\* process (fraud_counters = {}).
\* ------------------------------------------------------------------------
InitStats ==
    /\ profiles = <<>>
    /\ transaction_history = <<>>
    /\ partner_access_logs = <<>>
    /\ fraud_counters = <<>>
    /\ partner_apps = StartupPartnerApps
    /\ writer = 0
    /\ now = 0
    /\ pc = [p \in Procs |-> "idle"]
    /\ req = [p \in Procs |-> NoReq]
    /\ loc = [p \in Procs |-> NoLoc]
    /\ ret = NoRet
    /\ calls_left = StatsCalls
    /\ ticks_left = 0
    /\ issued = [u \in UpiIds |-> [n |-> 0, k |-> 0]]
    /\ failed = [u \in UpiIds |-> 0]

NextStats ==
    \/ \E p \in Procs, f \in BOOLEAN, a \in Amounts, t \in TxTypes :
          ApplySelect(p, "alice@upi", f, a, t, "internal_api")
    \/ \E p \in Procs : ApplyWrite(p)
    \/ \E p \in Procs : ApplyBusy(p)
    \/ \E p \in Procs : ApplyCommit(p)
    \/ \E p \in Procs : ApplyReturn(p)
    \/ \E p \in Procs, u \in UpiIds : GetFraudStats(p, u)
    \/ \E p \in Procs, u \in UpiIds : ResetFraudCounter(p, u)

SpecStats == InitStats /\ [][NextStats]_vars

\* ------------------------------------------------------------------------
\* Properties
\* ------------------------------------------------------------------------
Quiet == \A p \in Procs : pc[p] = "idle"

Occurrences(flags, f) ==
    Cardinality({i \in DOMAIN flags : flags[i] = f})

\* C1: once all the apply calls issued on an identifier have completed (none
\* raised), the stored profile counts every one of them: total_transactions
\* is the number of calls and total_fraud_count the number of fraudulent ones.
C1_NoLostUpdate ==
    \A u \in UpiIds :
        (Quiet /\ failed[u] = 0 /\ issued[u].n > 0)
        => /\ u \in DOMAIN profiles
           /\ profiles[u].total_transactions = issued[u].n
           /\ profiles[u].total_fraud_count = issued[u].k

\* C2: once is_blacklisted is true for an identifier it is true in every
\* later state.  (reset_fraud_counter, the one reset the service has, never
\* writes the table, so no step is exempt.)
C2_StickyBlacklist ==
    [][\A u \in DOMAIN profiles :
          profiles[u].is_blacklisted => profiles'[u].is_blacklisted]_vars

\* C3: each of the three threshold flags occurs at most once in a profile's
\* warning_flags.
C3_ThresholdFlagsOnce ==
    \A u \in DOMAIN profiles :
        \A f \in {"MEDIUM_RISK_THRESHOLD_REACHED", "HIGH_RISK_THRESHOLD_REACHED",
                  "CRITICAL_RISK_THRESHOLD_REACHED"} :
            Occurrences(profiles[u].warning_flags, f) <= 1

\* C4: BLACKLIST_THRESHOLD_REACHED occurs at most once in a profile's
\* warning_flags.
C4_BlacklistFlagOnce ==
    \A u \in DOMAIN profiles :
        Occurrences(profiles[u].warning_flags, "BLACKLIST_THRESHOLD_REACHED") <= 1

\* C5: a reset of an identifier that has a stored profile leaves a profile
\* that lookups see with zero counters, not blacklisted and without flags.
C5_ResetZeroes ==
    [][\A p \in Procs, u \in UpiIds :
          (ResetFraudCounter(p, u) /\ u \in DOMAIN profiles)
          => LET view == ProfileLookupView(profiles', u)
             IN /\ view.upi_id = u
                /\ view.fraud_count = 0
                /\ view.total_transactions = 0
                /\ view.is_blacklisted = FALSE
                /\ view.warning_flags = <<>>]_vars

\* C6: every stored profile has 0 <= total_fraud_count <= total_transactions.
C6_FraudWithinTotal ==
    \A u \in DOMAIN profiles :
        /\ 0 <= profiles[u].total_fraud_count
        /\ profiles[u].total_fraud_count <= profiles[u].total_transactions

\* C6 witness: a fraudulent apply, a further apply and a manual blacklist
\* have all written the profile.
C6_Witness ==
    \E u \in DOMAIN profiles :
        /\ profiles[u].total_fraud_count >= 1
        /\ profiles[u].total_transactions > profiles[u].total_fraud_count
        /\ \E r \in Reasons :
              Occurrences(profiles[u].warning_flags, ManualFlag(r)) >= 1

\* C7: the stored risk level of every profile is the level the classifier
\* gives for the stored risk score and the stored fraud count.
C7_LevelMatchesScore ==
    \A u \in DOMAIN profiles :
        profiles[u].current_risk_level
            = get_risk_level_from_score(profiles[u].risk_score,
                                        profiles[u].total_fraud_count)

\* C7 witness: a manual blacklist has updated a profile that an apply had
\* created with a level below BLACKLISTED.
C7_Witness ==
    \E u \in DOMAIN profiles :
        /\ profiles[u].total_transactions >= 1
        /\ profiles[u].total_fraud_count = 0
        /\ profiles[u].current_risk_level = "BLACKLISTED"
        /\ \E r \in Reasons :
              Occurrences(profiles[u].warning_flags, ManualFlag(r)) >= 1

\* C8: the row an apply commits has is_blacklisted set whenever its fraud
\* count is at least 100 or its risk score at least 90.
C8_ApplyBlacklists ==
    [][\A p \in Procs :
          ApplyCommit(p)
          => LET row == profiles'[req[p].upi_id]
             IN (row.total_fraud_count >= BLACKLIST_THRESHOLD
                 \/ FracGeq(row.risk_score, 90))
                => row.is_blacklisted]_vars

\* The one request of the run so far was a fraudulent apply, on an identifier
\* that had no profile, and it has returned its view.
ScenarioA ==
    /\ calls_left = MaxCalls - 1
    /\ ret.status = "ok"
    /\ ret.req.op = "apply"
    /\ ret.req.is_fraud

\* C9 as stated: the view of Scenario A has fraud_count 1, total 1, risk
\* score 100 and risk level MEDIUM.
C9_ScenarioA_Medium ==
    ScenarioA
    => /\ ret.body.fraud_count = 1
       /\ ret.body.total_transactions = 1
       /\ ret.body.risk_score = Frac(100, 1)
       /\ ret.body.risk_level = "MEDIUM"

\* C9 amended: the view of Scenario A has fraud_count 1, total 1, risk score
\* 100 and risk level BLACKLISTED.
C9_ScenarioA_Blacklisted ==
    ScenarioA
    => /\ ret.body.fraud_count = 1
       /\ ret.body.total_transactions = 1
       /\ ret.body.risk_score = Frac(100, 1)
       /\ ret.body.risk_level = "BLACKLISTED"

C9_Witness ==
    ScenarioA /\ ret.body.upi_id = "alice@upi"

\* C10: a stored profile with total_fraud_count >= 100 is blacklisted and has
\* risk level BLACKLISTED.
C10_HundredFraudsBlacklisted ==
    \A u \in DOMAIN profiles :
        profiles[u].total_fraud_count >= BLACKLIST_THRESHOLD
        => /\ profiles[u].is_blacklisted
           /\ profiles[u].current_risk_level = "BLACKLISTED"

\* C10 witness: a profile with 100 frauds whose risk score is below 90, so
\* that the count alone decides.
C10_Witness ==
    \E u \in DOMAIN profiles :
        /\ profiles[u].total_fraud_count >= BLACKLIST_THRESHOLD
        /\ ~FracGeq(profiles[u].risk_score, 90)

\* ------------------------------------------------------------------------
\* Properties of validate_transaction_realtime
\* ------------------------------------------------------------------------
\* The response sent last is the verdict of a validation.
ValidateAnswered ==
    /\ ret.status = "ok"
    /\ ret.req.op = "validate"

\* Scenario C: the verdict for an identifier without a profile, amount 60000,
\* type CASH_OUT and no denylisted substring in sender or recipient.
ScenarioC ==
    /\ ValidateAnswered
    /\ ret.body.user_profile.risk_level = "UNKNOWN"
    /\ ret.req.transaction_amount = 60000
    /\ ret.req.transaction_type = "CASH_OUT"
    /\ ~SuspiciousUpiId(ret.req)

\* C11 as stated: the verdict of Scenario C has tier MEDIUM, recommendation
\* PROCEED_WITH_CAUTION and should_block false.
C11_ScenarioC_Medium ==
    ScenarioC
    => /\ ret.body.validation_result.transaction_risk = "MEDIUM"
       /\ ret.body.validation_result.recommendation = "PROCEED_WITH_CAUTION"
       /\ ret.body.validation_result.should_block = FALSE

\* C11 amended: the verdict of Scenario C has tier HIGH, recommendation
\* MANUAL_REVIEW_REQUIRED and should_block false.
C11_ScenarioC_High ==
    ScenarioC
    => /\ ret.body.validation_result.transaction_risk = "HIGH"
       /\ ret.body.validation_result.recommendation = "MANUAL_REVIEW_REQUIRED"
       /\ ret.body.validation_result.should_block = FALSE

C11_Witness ==
    /\ ScenarioC
    /\ ret.req.upi_id = "alice@upi"
    /\ ret.req.recipient_upi_id = <<>>

\* C12: a validation whose lookup fetched a row with is_blacklisted set
\* answers should_block = true and should_proceed = false, whatever the
\* amount, the transaction type and the recipient.
C12_BlacklistedBlocks ==
    [][\A p \in Procs :
          (/\ ValidateLog(p)
           /\ ret'.status = "ok"
           /\ loc[p].profile # <<>>
           /\ loc[p].profile[1].is_blacklisted)
          => /\ ret'.body.validation_result.should_block = TRUE
             /\ ret'.body.validation_result.should_proceed = FALSE]_vars

\* C12 witness: Scenario D, a blacklisted identifier paying 10.
C12_Witness ==
    /\ ValidateAnswered
    /\ ret.req.upi_id \in DOMAIN profiles
    /\ profiles[ret.req.upi_id].is_blacklisted
    /\ ret.req.transaction_amount = 10
    /\ ret.req.transaction_type = "PAYMENT"
    /\ ret.req.recipient_upi_id = <<>>
    /\ ret.body.validation_result.should_block

\* C13: the verdict for an identifier without a profile whose tier is LOW
\* carries the recommendation NEW_USER_CAUTION.
C13_NewUserCaution ==
    (/\ ValidateAnswered
     /\ ret.body.user_profile.risk_level = "UNKNOWN"
     /\ ret.body.validation_result.transaction_risk = "LOW")
    => ret.body.validation_result.recommendation = "NEW_USER_CAUTION"

\* Worker p takes up a validation request in this step: the request is the
\* one it is serving afterwards, or the one answered with an error.
ValidateStarts(p) ==
    \/ /\ pc'[p] = "validate_lookup"
       /\ ValidatePartner(p, req'[p])
    \/ /\ ret'.status = "error"
       /\ ret'.req.op = "validate"
       /\ ValidatePartner(p, ret'.req)

\* C14: no step of a validation changes the profiles, the transaction
\* history or the in-memory counters; the step that answers it adds one row
\* to the access log and leaves the usage counters as the first step set them.
C14_ValidateFrame ==
    [][\A p \in Procs :
          /\ ((\/ ValidateStarts(p)
               \/ ValidateLookup(p)
               \/ ValidateLog(p))
              => /\ profiles' = profiles
                 /\ transaction_history' = transaction_history
                 /\ fraud_counters' = fraud_counters)
          /\ ((ValidateLog(p) /\ ret'.status = "ok")
              => /\ Len(partner_access_logs') = Len(partner_access_logs) + 1
                 /\ partner_apps' = partner_apps)]_vars

\* C14 witness: a validation for an identifier without a profile has been
\* answered, logged and counted, and the identifier still has no profile.
C14_Witness ==
    /\ ValidateAnswered
    /\ ret.req.upi_id \notin DOMAIN profiles
    /\ Len(partner_access_logs) = 1
    /\ partner_access_logs[1].upi_id = ret.req.upi_id
    /\ partner_apps[ret.req.partner_app_id].total_requests = 1

TierRank(tier) ==
    CASE tier = "LOW" -> 0
      [] tier = "MEDIUM" -> 1
      [] tier = "HIGH" -> 2
      [] tier = "CRITICAL" -> 3

Highest(tiers) ==
    CHOOSE t \in tiers : \A u \in tiers : TierRank(u) <= TierRank(t)

\* The tiers that the checks which fire demand, for a request and the
\* profile shown in its verdict.
DemandedTiers(request, user_profile) ==
    {"LOW"}
    \cup (IF SuspiciousUpiId(request) THEN {"CRITICAL"} ELSE {})
    \cup (IF request.transaction_amount > 100000 THEN {"HIGH"}
          ELSE IF request.transaction_amount > 50000 THEN {"MEDIUM"}
          ELSE {})
    \cup (IF user_profile.is_blacklisted \/ user_profile.risk_level = "CRITICAL"
          THEN {"CRITICAL"}
          ELSE IF user_profile.risk_level = "HIGH" THEN {"MEDIUM"}
          ELSE {})
    \cup (IF /\ request.transaction_type = "CASH_OUT"
             /\ request.transaction_amount > 25000
          THEN {"HIGH"} ELSE {})

\* C15: the tier of every verdict is the highest of the tiers demanded by the
\* checks that fire (pattern; amount, limits strict; profile; cash-out).
C15_TierIsMaximum ==
    ValidateAnswered
    => ret.body.validation_result.transaction_risk
          = Highest(DemandedTiers(ret.req, ret.body.user_profile))

\* C15 witness: a HIGH profile cashing out 60000: the profile and the amount
\* demand MEDIUM, the cash-out HIGH.
C15_Witness ==
    /\ ValidateAnswered
    /\ ret.body.user_profile.risk_level = "HIGH"
    /\ ~ret.body.user_profile.is_blacklisted
    /\ ret.req.transaction_amount = 60000
    /\ ret.req.transaction_type = "CASH_OUT"
    /\ ~SuspiciousUpiId(ret.req)
    /\ ret.body.validation_result.transaction_risk = "HIGH"

\* C16: for every verdict, the tier starts at LOW, is after each of the four
\* checks (pattern, amount, profile, type) at least what it was before it,
\* and after the last one is the tier of the verdict.
C16_TierNeverLowered ==
    ValidateAnswered
    => LET t1 == RiskAfterPattern("LOW", ret.req)
           t2 == RiskAfterAmount(t1, ret.req.transaction_amount)
           t3 == RiskAfterProfile(t2, ret.body.user_profile)
           t4 == RiskAfterType(t3, ret.req.transaction_type,
                               ret.req.transaction_amount)
       IN /\ TierRank("LOW") <= TierRank(t1)
          /\ TierRank(t1) <= TierRank(t2)
          /\ TierRank(t2) <= TierRank(t3)
          /\ TierRank(t3) <= TierRank(t4)
          /\ ret.body.validation_result.transaction_risk = t4

\* C16 witness: the pattern check has set CRITICAL and the amount and type
\* checks, which both fire, have left it.
C16_Witness ==
    /\ ValidateAnswered
    /\ SuspiciousUpiId(ret.req)
    /\ ret.req.transaction_amount = 100001
    /\ ret.req.transaction_type = "CASH_OUT"
    /\ ret.body.validation_result.transaction_risk = "CRITICAL"

\* C17: the recommendation of every verdict is the one its tier alone
\* decides: CRITICAL BLOCK_TRANSACTION, HIGH MANUAL_REVIEW_REQUIRED, MEDIUM
\* PROCEED_WITH_CAUTION, LOW PROCEED.
C17_RecommendationByTier ==
    ValidateAnswered
    => LET result == ret.body.validation_result
       IN result.recommendation
             = (CASE result.transaction_risk = "CRITICAL" -> "BLOCK_TRANSACTION"
                  [] result.transaction_risk = "HIGH" -> "MANUAL_REVIEW_REQUIRED"
                  [] result.transaction_risk = "MEDIUM" -> "PROCEED_WITH_CAUTION"
                  [] result.transaction_risk = "LOW" -> "PROCEED")

\* C17 witness: a verdict of tier HIGH for an identifier with a stored
\* profile of level HIGH.
C17_Witness ==
    /\ ValidateAnswered
    /\ ret.body.user_profile.risk_level = "HIGH"
    /\ ret.body.validation_result.transaction_risk = "HIGH"
    /\ ret.body.validation_result.recommendation = "MANUAL_REVIEW_REQUIRED"

\* C18: in every verdict should_block is (profile is_blacklisted or tier
\* CRITICAL), should_proceed is its negation, and should_block is true
\* exactly when the recommendation is BLOCK_TRANSACTION.
C18_ShouldBlock ==
    ValidateAnswered
    => LET result == ret.body.validation_result
       IN /\ result.should_block
                = (ret.body.user_profile.is_blacklisted
                   \/ result.transaction_risk = "CRITICAL")
          /\ result.should_proceed = ~result.should_block
          /\ result.should_block
                = (result.recommendation = "BLOCK_TRANSACTION")

\* C18 witness: a verdict that blocks for the pattern alone, the profile not
\* being blacklisted.
C18_Witness ==
    /\ ValidateAnswered
    /\ ~ret.body.user_profile.is_blacklisted
    /\ ret.body.user_profile.risk_level = "LOW"
    /\ ret.body.validation_result.transaction_risk = "CRITICAL"
    /\ ret.body.validation_result.should_block

\* ------------------------------------------------------------------------
\* Properties of manually_blacklist_user
\* ------------------------------------------------------------------------
\* C19: the commit of a manual blacklist leaves a row with is_blacklisted
\* true, level BLACKLISTED and score 100; for an identifier that had a row,
\* its flags are the flags stored just before with the MANUAL_BLACKLIST flag
\* appended, and its two counters are as stored before; for an identifier
\* that had none, the flag is the only one and the counters are zero.
C19_ManualBlacklistResult ==
    [][\A p \in Procs :
          BlacklistCommit(p)
          => LET upi_id == req[p].upi_id
                 row == profiles'[upi_id]
                 flag == ManualFlag(req[p].reason)
             IN /\ row.is_blacklisted
                /\ row.current_risk_level = "BLACKLISTED"
                /\ row.risk_score = Frac(100, 1)
                /\ IF upi_id \in DOMAIN profiles
                   THEN /\ row.warning_flags
                              = Append(profiles[upi_id].warning_flags, flag)
                        /\ row.total_fraud_count
                              = profiles[upi_id].total_fraud_count
                        /\ row.total_transactions
                              = profiles[upi_id].total_transactions
                   ELSE /\ row.warning_flags = <<flag>>
                        /\ row.total_fraud_count = 0
                        /\ row.total_transactions = 0]_vars

\* ------------------------------------------------------------------------
\* Properties of calculate_risk_score
\* ------------------------------------------------------------------------
ScoreAnswered ==
    /\ ret.status = "ok"
    /\ ret.req.op = "score"

FracLeq(x, y) ==
    x.num * y.den <= y.num * x.den

\* The score as the claim states it, for total_transactions > 0.
ClaimedScore(fraud_count, total_transactions, recent_frauds) ==
    LET penalty == CASE fraud_count > 50 -> 30
                     [] fraud_count > 20 /\ fraud_count <= 50 -> 15
                     [] fraud_count > 10 /\ fraud_count <= 20 -> 5
                     [] fraud_count <= 10 -> 0
        sum == Frac(100 * fraud_count
                       + (penalty + 2 * recent_frauds) * total_transactions,
                    total_transactions)
    IN IF FracLeq(Frac(100, 1), sum) THEN Frac(100, 1) ELSE sum

\* C20: the value calculate_risk_score returns is 0 when total_transactions
\* is 0 and otherwise min(100, 100 * fraud_count / total_transactions
\* + penalty + 2 * recent_frauds); it lies in [0, 100] and is not above the
\* value for one more fraud among the same total_transactions.
C20_ScoreFormula ==
    ScoreAnswered
    => LET fraud_count == ret.req.fraud_count
           total_transactions == ret.req.total_transactions
           recent_frauds == ret.req.recent_frauds
       IN /\ total_transactions = 0 => ret.body = Frac(0, 1)
          /\ total_transactions > 0
             => ret.body = ClaimedScore(fraud_count, total_transactions,
                                        recent_frauds)
          /\ FracLeq(Frac(0, 1), ret.body)
          /\ FracLeq(ret.body, Frac(100, 1))
          /\ fraud_count < total_transactions
             => FracLeq(ret.body,
                        calculate_risk_score(fraud_count + 1,
                                             total_transactions,
                                             recent_frauds))

\* C20 witness: 11 frauds in 60 transactions and 2 recent ones: the rate, the
\* penalty 5 and the recent-activity term all count, and the sum is below 100.
C20_Witness ==
    /\ ScoreAnswered
    /\ ret.req.fraud_count = 11
    /\ ret.req.total_transactions = 60
    /\ ret.req.recent_frauds = 2
    /\ ret.body = Frac(1640, 60)

\* ------------------------------------------------------------------------
\* Properties of get_risk_level_from_score
\* ------------------------------------------------------------------------
ClassifyAnswered ==
    /\ ret.status = "ok"
    /\ ret.req.op = "classify"

LevelRank(level) ==
    CASE level = "LOW" -> 0
      [] level = "MEDIUM" -> 1
      [] level = "HIGH" -> 2
      [] level = "CRITICAL" -> 3
      [] level = "BLACKLISTED" -> 4

\* The levels whose rule of the ladder matches (LOW always does).
MatchingLevels(risk_score, fraud_count) ==
    {"LOW"}
    \cup (IF fraud_count >= 10 \/ FracLeq(Frac(25, 1), risk_score)
          THEN {"MEDIUM"} ELSE {})
    \cup (IF fraud_count >= 20 \/ FracLeq(Frac(50, 1), risk_score)
          THEN {"HIGH"} ELSE {})
    \cup (IF fraud_count >= 50 \/ FracLeq(Frac(75, 1), risk_score)
          THEN {"CRITICAL"} ELSE {})
    \cup (IF fraud_count >= 100 \/ FracLeq(Frac(90, 1), risk_score)
          THEN {"BLACKLISTED"} ELSE {})

\* C21: get_risk_level_from_score returns one of the five levels, the one of
\* the first rule of the ladder (BLACKLISTED, CRITICAL, HIGH, MEDIUM, LOW)
\* that matches; the level for a higher score and the same count, and for a
\* higher count and the same score, is not lower.
C21_ClassifyLadder ==
    ClassifyAnswered
    => LET risk_score == ret.req.risk_score
           fraud_count == ret.req.fraud_count
           matching == MatchingLevels(risk_score, fraud_count)
       IN /\ ret.body \in matching
          /\ \A level \in matching : LevelRank(level) <= LevelRank(ret.body)
          /\ LevelRank(ret.body)
                <= LevelRank(get_risk_level_from_score(
                                 Frac(2 * risk_score.num + risk_score.den,
                                      2 * risk_score.den),
                                 fraud_count))
          /\ LevelRank(ret.body)
                <= LevelRank(get_risk_level_from_score(risk_score,
                                                       fraud_count + 1))

\* C21 witness: score 74.5 with 20 frauds: the count and the score both ask
\* for HIGH, and half a point more makes it CRITICAL.
C21_Witness ==
    /\ ClassifyAnswered
    /\ ret.req.risk_score = Frac(149, 2)
    /\ ret.req.fraud_count = 20
    /\ ret.body = "HIGH"

\* ------------------------------------------------------------------------
\* Properties of update_user_fraud_profile under concurrency
\* ------------------------------------------------------------------------
\* C22: the commit of an apply shows its profile row and its history row in
\* one step; every other step of an apply, and the step in which an apply
\* fails in particular, leaves the profiles and the history as they are and
\* keeps nothing staged; the history changes at no other step at all.
C22_AllOrNothing ==
    [][/\ \A p \in Procs :
             /\ ApplyCommit(p)
                => LET upi_id == req[p].upi_id
                       n == Len(transaction_history')
                   IN /\ upi_id \in DOMAIN profiles'
                      /\ profiles'[upi_id] = loc[p].row
                      /\ n = Len(transaction_history) + 1
                      /\ SubSeq(transaction_history', 1, n - 1)
                            = transaction_history
                      /\ transaction_history'[n] = loc[p].history
             /\ (pc[p] = "apply_write" /\ pc'[p] = "idle")
                => /\ ret'.status = "error"
                   /\ ret'.req = req[p]
                   /\ loc'[p] = NoLoc
                   /\ profiles' = profiles
                   /\ transaction_history' = transaction_history
             /\ (pc'[p] # pc[p]
                 /\ (pc[p] \in {"apply_write", "apply_return"}
                     \/ pc'[p] = "apply_write"))
                => /\ profiles' = profiles
                   /\ transaction_history' = transaction_history
       /\ transaction_history' # transaction_history
          => \E p \in Procs : ApplyCommit(p)]_vars

\* C22 witness: an apply has failed and another has committed, and the one
\* history row is that of the committed one.
C22_Witness ==
    /\ Quiet
    /\ failed["alice@upi"] = 1
    /\ issued["alice@upi"].n = 2
    /\ Len(transaction_history) = 1
    /\ profiles["alice@upi"].total_transactions = 1

\* C23: no step lowers the stored total_fraud_count or the stored
\* total_transactions of an identifier.
C23_CountersNeverDecrease ==
    [][\A u \in DOMAIN profiles :
          /\ profiles'[u].total_fraud_count >= profiles[u].total_fraud_count
          /\ profiles'[u].total_transactions
                >= profiles[u].total_transactions]_vars

\* The rows of a history table that belong to one identifier, in order.
HistoryOf(history, upi_id) ==
    SelectSeq(history, LAMBDA row : row.upi_id = upi_id)

\* A manual blacklist of the identifier has been committed.
BlacklistLogged(logs, upi_id) ==
    \E i \in DOMAIN logs :
        logs[i].upi_id = upi_id /\ logs[i].action = "MANUAL_BLACKLIST"

RECURSIVE TablesAfter(_, _)
TablesAfter(dbs, n) ==
    IF n = 0 THEN dbs
    ELSE TablesAfter(dbs \cup {AppliedAlone(d, "alice@upi", f) :
                                  d \in dbs, f \in BOOLEAN}, n - 1)

CommittedViews ==
    {ProfileLookupView(db.profiles, "alice@upi") :
        db \in TablesAfter({Past("alice@upi", run[1], run[2]) :
                               run \in ReadPastRuns}, ReadCalls)}

\* A lookup or a validation of "alice@upi" has been answered.
ReadAnswered ==
    /\ ret.status = "ok"
    /\ ret.req.op \in {"lookup", "validate"}
    /\ ret.req.upi_id = "alice@upi"

\* C25: the profile in the answer of a lookup or of a validation that ran
\* with applies on the same identifier is the view of a profile as some
\* apply committed it (or of no profile, before the first commit), whole:
\* its risk level is the one get_risk_level_from_score gives for its score
\* and its fraud count, and its fraud count is at most its transaction count.
C25_ReadersSeeCommittedProfile ==
    ReadAnswered
    => LET view == ret.body.user_profile
       IN IF ret.req.op = "lookup"
          THEN /\ view \in CommittedViews
               /\ view.status = "USER_FOUND"
                  => /\ view.risk_level =
                           get_risk_level_from_score(view.risk_score,
                                                     view.fraud_count)
                     /\ view.fraud_count <= view.total_transactions
          ELSE /\ \E v \in CommittedViews :
                     view = ValidationResponse(ret.req, v).user_profile
               /\ view.risk_level # "UNKNOWN"
                  => view.risk_level =
                        get_risk_level_from_score(view.fraud_score,
                                                  view.total_fraud_count)

\* C25 witness: a lookup is answered with the stored profile while an apply
\* holds an uncommitted row with another score for the same identifier.
C25_Witness ==
    /\ ReadAnswered
    /\ ret.req.op = "lookup"
    /\ ret.body.user_profile.status = "USER_FOUND"
    /\ \E p \in Procs :
          /\ pc[p] = "apply_commit"
          /\ req[p].upi_id = "alice@upi"
          /\ loc[p].row.risk_score # ret.body.user_profile.risk_score
          /\ ret.body.user_profile.risk_score = profiles["alice@upi"].risk_score

\* Worker p makes the first step of a lookup, or its last.
LookupStarts(p) == pc[p] = "idle" /\ pc'[p] = "lookup_log"
LookupEnds(p) == pc[p] = "lookup_log" /\ pc'[p] = "idle"

\* C26: a lookup changes no profile and no history row; one that is answered
\* (the access-log INSERT did not time out on the write lock) has appended,
\* when its caller is not empty, exactly one access-log row, with the caller,
\* the identifier and the action PROFILE_LOOKUP, and none when it is empty;
\* for an identifier that has no profile the answer is the view with status
\* USER_NOT_FOUND, fraud_count 0 and is_blacklisted false, and the
\* identifier has no profile afterwards either.
C26_LookupReadOnly ==
    [][\A p \in Procs :
          /\ LookupStarts(p)
             => /\ profiles' = profiles
                /\ transaction_history' = transaction_history
                /\ partner_access_logs' = partner_access_logs
          /\ LookupEnds(p)
             => /\ profiles' = profiles
                /\ transaction_history' = transaction_history
                /\ ret'.req = req[p]
                /\ ret'.status \in {"ok", "error"}
                /\ ret'.status = "error"
                   => /\ writer # 0
                      /\ req[p].partner_app_id # ""
                      /\ partner_access_logs' = partner_access_logs
                /\ (ret'.status = "ok" /\ req[p].partner_app_id = "")
                   => partner_access_logs' = partner_access_logs
                /\ (ret'.status = "ok" /\ req[p].partner_app_id # "")
                   => LET n == Len(partner_access_logs')
                      IN /\ n = Len(partner_access_logs) + 1
                         /\ SubSeq(partner_access_logs', 1, n - 1)
                               = partner_access_logs
                         /\ partner_access_logs'[n].partner_app_id
                               = req[p].partner_app_id
                         /\ partner_access_logs'[n].upi_id = req[p].upi_id
                         /\ partner_access_logs'[n].action = "PROFILE_LOOKUP"
                /\ (ret'.status = "ok" /\ req[p].upi_id \notin DOMAIN profiles)
                   => LET view == ret'.body.user_profile
                      IN /\ view.upi_id = req[p].upi_id
                         /\ view.status = "USER_NOT_FOUND"
                         /\ view.fraud_count = 0
                         /\ view.total_transactions = 0
                         /\ view.is_blacklisted = FALSE
                         /\ req[p].upi_id \notin DOMAIN profiles']_vars

\* C26 witness: a partner's lookup of an identifier without a profile has
\* been answered and logged.
C26_Witness ==
    /\ ret.status = "ok"
    /\ ret.req.op = "lookup"
    /\ ret.req.upi_id = "bob@upi"
    /\ ret.req.partner_app_id = "mock_payment_app"
    /\ ret.body.user_profile.status = "USER_NOT_FOUND"
    /\ "bob@upi" \notin DOMAIN profiles
    /\ \E i \in DOMAIN partner_access_logs :
          partner_access_logs[i] = LookupLog("mock_payment_app", "bob@upi")

\* C27: every profile with a fraud count of at least one has its
\* first_fraud_date set (the first fraudulent apply sets it, also on a row
\* that a non-fraudulent apply or a manual blacklist created), and an apply
\* never overwrites a first_fraud_date that is set.
C27_FirstFraudDateSet ==
    [][/\ \A u \in DOMAIN profiles' :
             profiles'[u].total_fraud_count >= 1
             => profiles'[u].first_fraud_date # <<>>
       /\ \A p \in Procs :
             (ApplyCommit(p) /\ req[p].upi_id \in DOMAIN profiles
              /\ profiles[req[p].upi_id].first_fraud_date # <<>>)
             => profiles'[req[p].upi_id].first_fraud_date
                   = profiles[req[p].upi_id].first_fraud_date]_vars

\* C28: the commit of an apply leaves one RECENT_FRAUD_ACTIVITY flag more
\* than the stored profile had when the apply is fraudulent and the stored
\* last_fraud_date exists and is less than 24 hours old, and as many as the
\* stored profile had (none, for a new profile) otherwise.
C28_RecentFraudActivity ==
    [][\A p \in Procs :
          ApplyCommit(p)
          => LET u == req[p].upi_id
                 before == IF u \in DOMAIN profiles
                           THEN Occurrences(profiles[u].warning_flags,
                                            "RECENT_FRAUD_ACTIVITY")
                           ELSE 0
                 after == Occurrences(profiles'[u].warning_flags,
                                      "RECENT_FRAUD_ACTIVITY")
                 qualifies ==
                     /\ req[p].is_fraud
                     /\ u \in DOMAIN profiles
                     /\ profiles[u].last_fraud_date # <<>>
                     /\ now - profiles[u].last_fraud_date[1]
                           < RECENT_WINDOW_HOURS
             IN after = before + (IF qualifies THEN 1 ELSE 0)]_vars

\* The flags hold the flag of a manual blacklist.
HasManualFlag(flags) ==
    \E i \in DOMAIN flags, r \in Reasons : flags[i] = ManualFlag(r)

\* C29: when an apply commits on a profile that a manual blacklist has
\* changed since the apply read it, or a manual blacklist commits on a
\* profile that an apply has changed since the blacklist read it, the
\* profile written is blacklisted, holds the MANUAL_BLACKLIST flag and
\* counts the applied transaction.
C29_BlacklistWithApply ==
    [][\A p \in Procs :
          LET u == req[p].upi_id
          IN /\ (/\ ApplyCommit(p)
                 /\ loc[p].profile # <<>>
                 /\ ~HasManualFlag(loc[p].profile[1].warning_flags)
                 /\ HasManualFlag(profiles[u].warning_flags))
                => /\ profiles'[u].is_blacklisted
                   /\ HasManualFlag(profiles'[u].warning_flags)
                   /\ profiles'[u].total_transactions
                         = profiles[u].total_transactions + 1
             /\ (/\ BlacklistCommit(p)
                 /\ loc[p].profile # <<>>
                 /\ loc[p].profile[1].total_transactions
                       < profiles[u].total_transactions)
                => /\ profiles'[u].is_blacklisted
                   /\ HasManualFlag(profiles'[u].warning_flags)
                   /\ profiles'[u].total_transactions
                         = profiles[u].total_transactions]_vars

\* C30: an apply does not fail on the profile's existence: one that found
\* no profile is never answered with the PRIMARY KEY violation of its
\* INSERT (a time-out on the write lock is the only failure).
C30_ApplyOnAbsentNeverFails ==
    ~(/\ ret.status = "error"
      /\ ret.req.op = "apply"
      /\ ret.detail = "IntegrityError")

\* C31: in every state each identifier has as many transaction-history rows
\* as its stored total_transactions says (none without a profile); every
\* commit of an apply appends one row, which carries the call's outcome,
\* amount, type, caller and the risk level it stores, and leaves the rows
\* already there as they are.
C31_HistoryMatchesTotal ==
    [][/\ \A p \in Procs :
             ApplyCommit(p)
             => LET n == Len(transaction_history')
                IN /\ n = Len(transaction_history) + 1
                   /\ SubSeq(transaction_history', 1, n - 1)
                         = transaction_history
                   /\ transaction_history'[n].upi_id = req[p].upi_id
                   /\ transaction_history'[n].is_fraud = req[p].is_fraud
                   /\ transaction_history'[n].transaction_amount
                         = req[p].transaction_amount
                   /\ transaction_history'[n].transaction_type
                         = req[p].transaction_type
                   /\ transaction_history'[n].partner_app_id
                         = req[p].partner_app_id
                   /\ transaction_history'[n].risk_level
                         = profiles'[req[p].upi_id].current_risk_level
       /\ \A u \in UpiIds :
             Len(HistoryOf(transaction_history', u))
                = IF u \in DOMAIN profiles'
                  THEN profiles'[u].total_transactions ELSE 0]_vars

\* C32: the row an apply commits has the risk_score that calculate_risk_score
\* gives for the counts in that row (with no recent frauds) and the
\* fraud_rate fraud_count / total_transactions; and in every state, also
\* after a manual blacklist, each stored risk_score is between 0 and 100 and
\* each stored fraud_rate is fraud_count / total_transactions, or 0 when
\* there is no transaction.
C32_DerivedFields ==
    [][/\ \A p \in Procs :
             ApplyCommit(p)
             => LET row == profiles'[req[p].upi_id]
                IN /\ row.total_transactions > 0
                   /\ row.risk_score =
                         calculate_risk_score(row.total_fraud_count,
                                              row.total_transactions, 0)
                   /\ row.fraud_rate.num * row.total_transactions
                         = row.total_fraud_count * row.fraud_rate.den
       /\ \A u \in DOMAIN profiles' :
             LET row == profiles'[u]
             IN /\ row.risk_score.den > 0
                /\ row.risk_score.num >= 0
                /\ row.risk_score.num <= 100 * row.risk_score.den
                /\ row.fraud_rate.den > 0
                /\ IF row.total_transactions = 0
                   THEN row.fraud_rate.num = 0
                   ELSE row.fraud_rate.num * row.total_transactions
                           = row.total_fraud_count * row.fraud_rate.den]_vars

\* C32 witness: a fraudulent transaction has been applied to a profile that
\* a manual blacklist created with no transaction.
C32_Witness ==
    /\ Quiet
    /\ "alice@upi" \in DOMAIN profiles
    /\ HasManualFlag(profiles["alice@upi"].warning_flags)
    /\ profiles["alice@upi"].total_transactions = 2
    /\ profiles["alice@upi"].total_fraud_count = 1

\* Worker p is inside update_user_fraud_profile.
Applying(p) == pc[p] \in {"apply_write", "apply_commit", "apply_return"}

\* C33: an apply that has started is answered: its worker becomes idle with
\* the call's result or its error as the response, whatever the other
\* workers run; and the write is attempted once: from the write the call
\* goes on to its commit or ends, and from the commit to its return.
C33_ApplyTerminates ==
    /\ \A p \in Procs :
          Applying(p) ~> (/\ pc[p] = "idle"
                          /\ ret.status \in {"ok", "error"}
                          /\ ret.req.op = "apply")
    /\ [][\A p \in Procs :
             /\ (pc[p] = "apply_write" /\ pc'[p] # pc[p])
                => \/ pc'[p] = "apply_commit"
                   \/ pc'[p] = "idle" /\ ret'.status = "error"
                                      /\ ret'.req = req[p]
             /\ (pc[p] = "apply_commit" /\ pc'[p] # pc[p])
                => pc'[p] = "apply_return"
             /\ (pc[p] = "apply_return" /\ pc'[p] # pc[p])
                => pc'[p] = "idle" /\ ret'.status = "ok"
                                   /\ ret'.req = req[p]]_vars

\* C33 witness: an apply has been answered with the time-out on the lock
\* while a manual blacklist holds the write transaction open.
C33_Witness ==
    /\ ret.status = "error"
    /\ ret.req.op = "apply"
    /\ ret.detail = "OperationalError"
    /\ \E q \in Procs : pc[q] = "blacklist_commit"

\* The factors the checks that fire give, in check order, for a request and
\* the profile shown in its verdict, the pattern check and the cash-out
\* check naming their factors `pattern` and `cash_out`.
FiredFactors(request, user_profile, pattern, cash_out) ==
    LET fired == [i \in 1..4 |->
            CASE i = 1 -> IF SuspiciousUpiId(request) THEN {pattern} ELSE {}
              [] i = 2 -> IF request.transaction_amount > 100000
                          THEN {"HIGH_AMOUNT"}
                          ELSE IF request.transaction_amount > 50000
                          THEN {"MEDIUM_AMOUNT"} ELSE {}
              [] i = 3 -> IF user_profile.is_blacklisted
                          THEN {"BLACKLISTED_USER"}
                          ELSE IF user_profile.risk_level = "CRITICAL"
                          THEN {"CRITICAL_USER_RISK"}
                          ELSE IF user_profile.risk_level = "HIGH"
                          THEN {"HIGH_USER_RISK"} ELSE {}
              [] i = 4 -> IF /\ request.transaction_type = "CASH_OUT"
                             /\ request.transaction_amount > 25000
                          THEN {cash_out} ELSE {}]
        checks == SelectSeq(<<1, 2, 3, 4>>, LAMBDA i : fired[i] # {})
    IN [k \in 1..Len(checks) |-> CHOOSE f \in fired[checks[k]] : TRUE]

\* C34 as stated: the factors of every verdict are those of the checks
\* that fire, one each and in check order, the pattern check's being
\* SUSPICIOUS_IDENTIFIER and the cash-out check's SUSPICIOUS_WITHDRAWAL; and
\* a verdict with a tier above LOW has at least one factor.
C34_Factors_AsStated ==
    ValidateAnswered
    => /\ ret.body.validation_result.risk_factors
             = FiredFactors(ret.req, ret.body.user_profile,
                            "SUSPICIOUS_IDENTIFIER", "SUSPICIOUS_WITHDRAWAL")
       /\ ret.body.validation_result.transaction_risk # "LOW"
          => ret.body.validation_result.risk_factors # <<>>

\* C34 amended: the same, the pattern check's factor being SUSPICIOUS_UPI_ID
\* and the cash-out check's SUSPICIOUS_CASH_OUT.
C34_Factors ==
    ValidateAnswered
    => /\ ret.body.validation_result.risk_factors
             = FiredFactors(ret.req, ret.body.user_profile,
                            "SUSPICIOUS_UPI_ID", "SUSPICIOUS_CASH_OUT")
       /\ ret.body.validation_result.transaction_risk # "LOW"
          => ret.body.validation_result.risk_factors # <<>>

\* C34 witness: all four checks fire: a denylisted recipient, an amount over
\* 100000, a blacklisted sender and a cash-out.
C34_Witness ==
    /\ ValidateAnswered
    /\ ret.req.upi_id = "alice@upi"
    /\ ret.req.recipient_upi_id = <<"fake.shop@upi">>
    /\ ret.req.transaction_amount = 100001
    /\ ret.req.transaction_type = "CASH_OUT"
    /\ ret.body.user_profile.is_blacklisted
    /\ Len(ret.body.validation_result.risk_factors) = 4

\* C35: a validation of an identifier whose stored risk level is
\* BLACKLISTED, as update_user_fraud_profile calls left it, answers
\* should_block = true.
C35_BlacklistedLevelBlocks ==
    (/\ ValidateAnswered
     /\ ret.req.upi_id \in DOMAIN profiles
     /\ profiles[ret.req.upi_id].current_risk_level = "BLACKLISTED")
    => ret.body.validation_result.should_block

\* A lookup (POST /user-lookup) has been answered.
LookupAnswered ==
    /\ ret.status = "ok"
    /\ ret.req.op = "lookup"

\* The lookup recommendations, from the weakest to the strongest.
RecommendationRank(recommendation) ==
    CASE recommendation \in {"PROCEED", "NEW_USER_CAUTION"} -> 0
      [] recommendation = "PROCEED_WITH_CAUTION" -> 1
      [] recommendation = "ENHANCED_VERIFICATION" -> 2
      [] recommendation = "MANUAL_REVIEW_REQUIRED" -> 3
      [] recommendation = "BLOCK_TRANSACTION" -> 4

\* The weakest recommendation that does not fall behind the one of a lower
\* risk level.
LevelFloor(risk_level) ==
    CASE risk_level \in {"UNKNOWN", "MINIMAL", "LOW"} -> 0
      [] risk_level = "MEDIUM" -> 1
      [] risk_level = "HIGH" -> 2
      [] risk_level = "CRITICAL" -> 3
      [] risk_level = "BLACKLISTED" -> 4

\* C36: a lookup that shows risk level BLACKLISTED recommends
\* BLOCK_TRANSACTION and reports safe_to_proceed = false; and the
\* recommendation of every lookup is at least as strong as the one that
\* goes with its risk level, so that it never weakens as the level rises.
C36_LookupBlocksBlacklisted ==
    LookupAnswered
    => LET view == ret.body.user_profile
       IN /\ view.risk_level = "BLACKLISTED"
             => /\ view.recommendation = "BLOCK_TRANSACTION"
                /\ ret.body.instant_assessment.safe_to_proceed = FALSE
          /\ RecommendationRank(view.recommendation)
                >= LevelFloor(view.risk_level)

\* C37: a statistics request made while no apply is running reports the
\* fraud_count and the total_transactions of the stored profile of its
\* identifier (0 and 0 without one), and status 'No transactions found'
\* only for an identifier that has no profile.
C37_StatsMatchProfile ==
    [][\A p \in Procs, u \in UpiIds :
          (GetFraudStats(p, u) /\ Quiet)
          => LET stats == ret'.body
             IN /\ stats.fraud_count
                      = IF u \in DOMAIN profiles
                        THEN profiles[u].total_fraud_count ELSE 0
                /\ stats.total_transactions
                      = IF u \in DOMAIN profiles
                        THEN profiles[u].total_transactions ELSE 0
                /\ stats.status = "No transactions found"
                   => u \notin DOMAIN profiles]_vars

\* C38: a validation request whose partner_app_id has no active
\* registration is answered with status code 401, and handling it changes no
\* usage counter, appends no access-log row and reads no profile.
C38_UnknownPartnerRejected ==
    [][\A p \in Procs :
          (/\ ValidateStarts(p)
           /\ ret'.status = "error"
           /\ ret'.req.op = "validate"
           /\ ~(/\ ret'.req.partner_app_id \in DOMAIN partner_apps
                /\ partner_apps[ret'.req.partner_app_id].is_active))
          => /\ ret'.status_code = 401
             /\ partner_apps' = partner_apps
             /\ partner_access_logs' = partner_access_logs
             /\ pc' = pc
             /\ loc' = loc]_vars

====
